---- MODULE Spec2Model ----
(***************************************************************************)
(* stevedore: the manager hierarchy's load pipeline (_load_plugins,        *)
(* _load_one_plugin, _init_plugins), the name index (_extensions_by_name)  *)
(* and the invocation layer (map, _invoke_one_plugin); and                  *)
(* stevedore._cache, the Registry Cache behind list_entry_points.          *)
(*                                                                         *)
(* Spec          a manager's construction from the registry's records      *)
(* SpecUse       construction, then the first call made on the manager     *)
(* SpecLookup    construction of a manager of any class, then one          *)
(*               manager[name]                                             *)
(* SpecIndex     name lookups, items(), names(), iteration and map on a    *)
(*               manager made by make_test_instance                        *)
(* SpecMap       one map() call, with a func that may raise, on a manager  *)
(*               made by make_test_instance                                *)
(* SpecDispatch  map() calls of the base and the dispatch managers, with a *)
(*               func that returns, on managers made by make_test_instance *)
(* SpecDispatchMap  one DispatchExtensionManager.map() call whose          *)
(*               filter_func and func may raise                            *)
(* SpecHash      _hash_settings_for_path in environments that change       *)
(* SpecCall      one call of the cache by one process, whatever the cache  *)
(*               directory holds                                           *)
(* SpecCache     the calls of a process and of the fresh processes after   *)
(*               it, while the installed distributions change              *)
(* SpecRace      processes that call the cache at the same time            *)
(***************************************************************************)
EXTENDS Integers, Sequences, FiniteSets, TLC

VARIABLES
    kind,                       \* the manager's class
    registry,                   \* list_entry_points(): record i has name registry[i]
    invoke_on_load,
    on_load_failure_callback,   \* the constructor's argument: "None" or "user"
    conflict_resolver,
    propagate_map_exceptions,
    _names,                     \* NamedExtensionManager._names
    _name_order,                \* NamedExtensionManager._name_order
    on_missing_entrypoints_callback,
                                \* the constructor's argument: "None", "user" or
                                \* "warning_on_missing_entrypoint"
    pc,                         \* where the modelled call stands
    idx,                        \* position of the running loop
    loaded,                     \* _load_plugins' local list `extensions`
    extensions,                 \* self.extensions
    _extensions_by_name_cache,  \* "None", or the memoized name index
    _missing_names,
    attempted,                  \* records handed to _load_one_plugin, in order,
                                \* each with what the call did
    resolved,                   \* records whose ep.load() was called, in order
    cb_calls,                   \* calls of the user's on_load_failure_callback
    check_calls,                \* calls of check_func, in order
    missing_calls,              \* calls of on_missing_entrypoints_callback
    by_name,                    \* NameDispatchExtensionManager.by_name
    map_args,                   \* the arguments of the running map call
    filter_calls,               \* calls of map's filter_func, in order
    resolver_calls,             \* calls of the conflict resolver
    log,                        \* LOG records written
    func_calls,                 \* calls of func in the running (or last) map call,
                                \* in order, each with what func did
    ncalls,                     \* calls made on the constructed manager
    response,                   \* map's `response` list
    result,                     \* what the last finished call returned
    raised,                     \* "None", or the error that reached the caller
    environ,                    \* sys.executable, sys.prefix, sys.path and what
                                \* os.stat and glob find beneath its entries
    entry_points,               \* importlib.metadata.entry_points(): the records
                                \* of the namespace as a scan finds them
    files,                      \* the cache directory: file name -> content
    disable_marker,             \* the cache directory holds a file .disable
    _disable_caching,           \* Cache._disable_caching, per process
    _internal,                  \* Cache._internal, per process
    ENTRY_POINT_CACHE,          \* ExtensionManager.ENTRY_POINT_CACHE, per process
    cpc,                        \* where each process stands in its cache call
    frame,                      \* the locals of each process's cache call
    last_call,                  \* the last finished cache call and what it did
    persisted,                  \* the datasets written whole, by file name
    hashed                      \* the _hash_settings_for_path calls made

vars == <<kind, registry, invoke_on_load, on_load_failure_callback,
          conflict_resolver, propagate_map_exceptions, _names, _name_order,
          pc, idx, loaded, extensions, _extensions_by_name_cache,
          _missing_names, attempted, resolved, cb_calls, resolver_calls, log,
          func_calls, ncalls, response, result, raised,
          on_missing_entrypoints_callback, check_calls, missing_calls, by_name,
          map_args, filter_calls, environ, entry_points, files, disable_marker,
          _disable_caching, _internal, ENTRY_POINT_CACHE, cpc, frame, last_call,
          persisted, hashed>>

\* the Registry Cache, its processes and the environment they run in
cache_state == <<environ, entry_points, files, disable_marker,
                 _disable_caching, _internal, ENTRY_POINT_CACHE, cpc, frame,
                 last_call, persisted, hashed>>

\* no process has imported stevedore._cache
CacheUnused ==
    /\ environ = <<>>
    /\ entry_points = <<>>
    /\ files = <<>>
    /\ disable_marker = FALSE
    /\ _disable_caching = <<>>
    /\ _internal = <<>>
    /\ ENTRY_POINT_CACHE = <<>>
    /\ cpc = <<>>
    /\ frame = <<>>
    /\ last_call = <<>>
    /\ persisted = <<>>
    /\ hashed = <<>>

config == <<kind, registry, invoke_on_load, on_load_failure_callback,
            conflict_resolver, propagate_map_exceptions, _names, _name_order,
            on_missing_entrypoints_callback>>

-----------------------------------------------------------------------------
(* Bounds and input sets *)

MaxRecords == 3
MaxExt == 3

Names == {"a", "b"}
Namespace == "TESTING"

Kinds == {"ExtensionManager", "EnabledExtensionManager",
          "NamedExtensionManager", "DriverManager", "HookManager"}
NamedKinds == {"NamedExtensionManager", "DriverManager", "HookManager"}

\* the classes whose map takes a filter_func or a list of names
DispatchKinds == {"DispatchExtensionManager", "NameDispatchExtensionManager"}

\* EnabledExtensionManager and the classes derived from it
EnabledKinds == {"EnabledExtensionManager"} \cup DispatchKinds

Resolvers == {"ignore_conflicts", "error_on_conflict", "first_resolver"}

\* what ep.load(), plugin(...) and func(...) can raise
OrdinaryErrors == {"ImportError", "IOError", "RuntimeError"}
FatalErrors == {"KeyboardInterrupt", "AssertionError"}

SeqsUpTo(S, n) == UNION {[1..k -> S] : k \in 0..n}

-----------------------------------------------------------------------------
(* Python values *)

None == [kind |-> "None", ep |-> 0, truthy |-> FALSE]
Plugin(ep) == [kind |-> "plugin", ep |-> ep, truthy |-> TRUE]
Instance(ep, truthy) == [kind |-> "obj", ep |-> ep, truthy |-> truthy]

\* bool(v)
Truthy(v) == v.truthy

\* `except BaseException` in place of `except Exception`
IsBaseException(err) == TRUE

\* isinstance(err, Exception): KeyboardInterrupt derives from BaseException only
IsException(err) == err # "KeyboardInterrupt"

Extension(name, entry_point, plugin, obj) ==
    [name |-> name, entry_point |-> entry_point, plugin |-> plugin, obj |-> obj]

\* names() listing the names from the last Extension to the first
NamesOf_reversed(exts) == [k \in 1..Len(exts) |-> exts[Len(exts) + 1 - k].name]

\* names(): [e.name for e in self.extensions]
NamesOf(exts) == [k \in 1..Len(exts) |-> exts[k].name]

NameSet(exts) == {exts[k].name : k \in 1..Len(exts)}

-----------------------------------------------------------------------------
(* _load_one_plugin: env is what the record's code does when it is run:    *)
(* env.load is ep.load()'s outcome, env.call is the plugin call's outcome,  *)
(* env.check is check_func(ext)'s answer.                                  *)

LoadEnv == [load : {"ok", "ImportError", "KeyboardInterrupt", "AssertionError"},
            call : {"truthy", "falsy", "IOError", "KeyboardInterrupt", "AssertionError"},
            check : BOOLEAN]

\* the outcome of one _load_one_plugin call
Returned(ext, did_load) ==
    [raised |-> "None", has_ext |-> TRUE, ext |-> ext, did_load |-> did_load]
ReturnedNone(did_load) ==
    [raised |-> "None", has_ext |-> FALSE, ext |-> None, did_load |-> did_load]
Raised(err) ==
    [raised |-> err, has_ext |-> FALSE, ext |-> None, did_load |-> TRUE]

\* how a _load_one_plugin call ended: "loaded", "None" or the error's name
Outcome(r) ==
    IF r.raised # "None" THEN r.raised
    ELSE IF r.has_ext THEN "loaded" ELSE "None"

\* ExtensionManager._load_one_plugin
ExtensionManager_load_one_plugin(ep, env) ==
    IF env.load # "ok" THEN Raised(env.load)
    ELSE IF invoke_on_load
         THEN IF env.call \in {"truthy", "falsy"}
              THEN Returned(Extension(registry[ep], ep, Plugin(ep),
                                      Instance(ep, env.call = "truthy")), TRUE)
              ELSE Raised(env.call)
         ELSE Returned(Extension(registry[ep], ep, Plugin(ep), None), TRUE)

\* NamedExtensionManager._load_one_plugin without its test of ep.name
NamedExtensionManager_load_one_plugin_any_name(ep, env) ==
    ExtensionManager_load_one_plugin(ep, env)

\* NamedExtensionManager._load_one_plugin
NamedExtensionManager_load_one_plugin(ep, env) ==
    IF \A k \in 1..Len(_names) : _names[k] # registry[ep]
    THEN ReturnedNone(FALSE)
    ELSE ExtensionManager_load_one_plugin(ep, env)

\* EnabledExtensionManager._load_one_plugin returning ext whatever check_func
\* answered
EnabledExtensionManager_load_one_plugin_unchecked(ep, env) ==
    ExtensionManager_load_one_plugin(ep, env)

\* EnabledExtensionManager._load_one_plugin
EnabledExtensionManager_load_one_plugin(ep, env) ==
    LET r == ExtensionManager_load_one_plugin(ep, env)
    IN  IF r.raised = "None" /\ r.has_ext /\ ~env.check
        THEN ReturnedNone(TRUE)
        ELSE r

\* self._load_one_plugin, by the manager's class
_load_one_plugin(ep, env) ==
    CASE kind \in NamedKinds -> NamedExtensionManager_load_one_plugin(ep, env)
      [] kind \in EnabledKinds -> EnabledExtensionManager_load_one_plugin(ep, env)
      [] OTHER -> ExtensionManager_load_one_plugin(ep, env)

\* DriverManager.__init__ passing on_load_failure_callback on as it is
EffectiveCallback_as_given == on_load_failure_callback

\* DriverManager.__init__: on_load_failure_callback or self._default_on_load_failure
EffectiveCallback ==
    IF kind = "DriverManager" /\ on_load_failure_callback = "None"
    THEN "_default_on_load_failure"
    ELSE on_load_failure_callback

\* _load_plugins with a bare `raise` in its `except Exception` clause
LoadFailureHandling_reraises(err) == "raise"

\* _load_plugins without its `except (KeyboardInterrupt, AssertionError)` clause
LoadFailureHandling_one_clause(err) ==
    IF IsException(err)
    THEN IF EffectiveCallback = "None" THEN "log"
         ELSE IF EffectiveCallback = "_default_on_load_failure" THEN "raise"
         ELSE "callback"
    ELSE "raise"

\* the except clauses of _load_plugins' loop body, for a raised err:
\* "raise" (the error leaves the constructor), "callback" or "log"
LoadFailureHandling(err) ==
    IF err \in {"KeyboardInterrupt", "AssertionError"} THEN "raise"
    ELSE IF IsException(err)
         THEN IF EffectiveCallback = "None" THEN "log"
              ELSE IF EffectiveCallback = "_default_on_load_failure" THEN "raise"
              ELSE "callback"
         ELSE "raise"

-----------------------------------------------------------------------------
(* The name index *)

\* ignore_conflicts returning entrypoints[0]
ignore_conflicts_first(namespace, name, entrypoints) ==
    [raised |-> "None", ext |-> entrypoints[1]]

\* the conflict resolvers: ignore_conflicts and error_on_conflict, and the
\* first-wins resolver of test_custom_conflict_resolver
ignore_conflicts(namespace, name, entrypoints) ==
    [raised |-> "None", ext |-> entrypoints[Len(entrypoints)]]

error_on_conflict(namespace, name, entrypoints) ==
    [raised |-> "MultipleMatches", ext |-> entrypoints[1]]

first_resolver(namespace, name, entrypoints) ==
    [raised |-> "None", ext |-> entrypoints[1]]

\* self._conflict_resolver(namespace, name, extensions)
CallResolver(resolver, namespace, name, entrypoints) ==
    CASE resolver = "ignore_conflicts" -> ignore_conflicts(namespace, name, entrypoints)
      [] resolver = "error_on_conflict" -> error_on_conflict(namespace, name, entrypoints)
      [] OTHER -> first_resolver(namespace, name, entrypoints)

\* the length of the run of equal names that starts exts
RECURSIVE RunLength(_)
RunLength(exts) ==
    IF Len(exts) <= 1 THEN Len(exts)
    ELSE IF exts[2].name = exts[1].name THEN 1 + RunLength(Tail(exts))
    ELSE 1

\* itertools.groupby(self.extensions, lambda x: x.name): a new group starts
\* whenever the name changes, so it groups consecutive Extensions only
RECURSIVE GroupBy(_)
GroupBy(exts) ==
    IF exts = <<>> THEN <<>>
    ELSE LET k == RunLength(exts)
         IN  <<SubSeq(exts, 1, k)>> \o GroupBy(SubSeq(exts, k + 1, Len(exts)))

EmptyDict == [n \in {} |-> None]

\* d = {name: ext} in place of d[name] = ext
SetItem_alone(d, name, ext) == [n \in {name} |-> ext]

\* d[name] = ext
SetItem(d, name, ext) ==
    [n \in (DOMAIN d) \cup {name} |-> IF n = name THEN ext ELSE d[n]]

NoCache == [is_none |-> TRUE, d |-> EmptyDict]

\* the loop of the _extensions_by_name property over the groups
RECURSIVE IndexGroups(_, _, _, _)
IndexGroups(groups, resolver, d, calls) ==
    IF groups = <<>> THEN [raised |-> "None", d |-> d, calls |-> calls]
    ELSE LET g == groups[1]
             name == g[1].name
         IN  IF Len(g) > 1
             THEN LET r == CallResolver(resolver, Namespace, name, g)
                      calls2 == Append(calls, [namespace |-> Namespace,
                                               name |-> name, entrypoints |-> g])
                  IN  IF r.raised # "None"
                      THEN [raised |-> r.raised, d |-> d, calls |-> calls2]
                      ELSE IndexGroups(Tail(groups), resolver,
                                       SetItem(d, name, r.ext), calls2)
             ELSE IndexGroups(Tail(groups), resolver, SetItem(d, name, g[1]), calls)

\* self._extensions_by_name_cache = d, for the outcome r of the index's loop
Memoized(r, cache) ==
    [raised |-> r.raised, d |-> r.d, calls |-> r.calls,
     cache |-> IF r.raised = "None" THEN [is_none |-> FALSE, d |-> r.d] ELSE cache]

\* the _extensions_by_name property building the index on every read
_extensions_by_name_rebuilt(exts, cache, resolver) ==
    Memoized(IndexGroups(GroupBy(exts), resolver, EmptyDict, <<>>), cache)

\* the _extensions_by_name property read on a manager holding exts and cache:
\* the index, the resolver calls it made and the cache it leaves
_extensions_by_name(exts, cache, resolver) ==
    IF cache.is_none
    THEN Memoized(IndexGroups(GroupBy(exts), resolver, EmptyDict, <<>>), cache)
    ELSE [raised |-> "None", d |-> cache.d, calls |-> <<>>, cache |-> cache]

\* index[name], for the outcome r of reading the index
Subscript(r, name) ==
    IF r.raised # "None"
    THEN [raised |-> r.raised, ext |-> None, calls |-> r.calls, cache |-> r.cache]
    ELSE IF name \in DOMAIN r.d
         THEN [raised |-> "None", ext |-> r.d[name], calls |-> r.calls,
               cache |-> r.cache]
         ELSE [raised |-> "KeyError", ext |-> None, calls |-> r.calls,
               cache |-> r.cache]

\* ExtensionManager.__getitem__ on a manager holding exts and cache
__getitem__(exts, cache, resolver, name) ==
    Subscript(_extensions_by_name(exts, cache, resolver), name)

\* ExtensionManager.__contains__ looking at the first Extension only
__contains___first(exts, name) == Len(exts) > 0 /\ exts[1].name = name

\* ExtensionManager.__contains__
__contains__(exts, name) == \E k \in 1..Len(exts) : exts[k].name = name

-----------------------------------------------------------------------------
(* _init_plugins, per class: what the manager holds afterwards, the         *)
(* resolver calls made on the way and the error raised, if any              *)

\* ExtensionManager._init_plugins
ExtensionManager_init_plugins(exts) ==
    [raised |-> "None", extensions |-> exts, cache |-> NoCache, calls |-> <<>>]

\* [n for n in names if n not in missing]
NotMissing(names, missing) == SelectSeq(names, LAMBDA n : n \notin missing)

\* [self[n] for n in wanted] once the first self[n] has returned first: the
\* later ones read the cache the first one left
RestInNameOrder(wanted, first, exts, resolver) ==
    IF first.raised # "None"
    THEN [raised |-> first.raised, extensions |-> <<>>,
          cache |-> first.cache, calls |-> first.calls]
    ELSE IF \E k \in 1..Len(wanted) :
               __getitem__(exts, first.cache, resolver, wanted[k]).raised # "None"
    THEN [raised |-> "KeyError", extensions |-> <<>>,
          cache |-> first.cache, calls |-> first.calls]
    ELSE [raised |-> "None",
          extensions |-> [k \in 1..Len(wanted) |->
                             __getitem__(exts, first.cache, resolver, wanted[k]).ext],
          cache |-> first.cache, calls |-> first.calls]

\* [self[n] for n in wanted], on a manager holding exts
InNameOrder(wanted, exts, cache, resolver) ==
    IF wanted = <<>>
    THEN [raised |-> "None", extensions |-> <<>>, cache |-> cache, calls |-> <<>>]
    ELSE RestInNameOrder(wanted, __getitem__(exts, cache, resolver, wanted[1]),
                         exts, resolver)

\* self.extensions = [...] when the list comprehension returned r
AssignOrdered(r, exts) ==
    IF r.raised # "None" THEN [r EXCEPT !.extensions = exts] ELSE r

\* NamedExtensionManager._init_plugins
NamedExtensionManager_init_plugins(exts, missing) ==
    IF _name_order
    THEN AssignOrdered(InNameOrder(NotMissing(_names, missing), exts, NoCache,
                                   conflict_resolver), exts)
    ELSE ExtensionManager_init_plugins(exts)

\* DriverManager._init_plugins without its MultipleMatches check
DriverChecks_no_multiple(r) ==
    IF r.raised # "None" THEN r
    ELSE IF Len(r.extensions) = 0 THEN [r EXCEPT !.raised = "NoMatches"]
    ELSE r

\* the checks of DriverManager._init_plugins after super()._init_plugins
\* returned r
DriverChecks(r) ==
    IF r.raised # "None" THEN r
    ELSE IF Len(r.extensions) = 0 THEN [r EXCEPT !.raised = "NoMatches"]
    ELSE IF Len(r.extensions) > 1 THEN [r EXCEPT !.raised = "MultipleMatches"]
    ELSE r

\* DriverManager._init_plugins
DriverManager_init_plugins(exts, missing) ==
    DriverChecks(NamedExtensionManager_init_plugins(exts, missing))

\* NameDispatchExtensionManager._init_plugins:
\* self.by_name = {e.name: e for e in self.extensions}; a later Extension takes
\* the place of an earlier one of its name
ByName(exts) ==
    [n \in NameSet(exts) |->
        exts[CHOOSE k \in 1..Len(exts) :
                 /\ exts[k].name = n
                 /\ \A j \in (k + 1)..Len(exts) : exts[j].name # n]]

\* self._init_plugins(extensions), by the manager's class
_init_plugins(exts, missing) ==
    CASE kind = "DriverManager" -> DriverManager_init_plugins(exts, missing)
      [] kind \in {"NamedExtensionManager", "HookManager"} ->
            NamedExtensionManager_init_plugins(exts, missing)
      [] OTHER -> ExtensionManager_init_plugins(exts)

\* the constructors' defaults for on_missing_entrypoints_callback
DefaultOnMissingEntrypointsCallback ==
    IF kind = "HookManager" THEN "None" ELSE "warning_on_missing_entrypoint"

\* self._on_missing_entrypoints_callback: DriverManager.__init__ does not hand
\* its argument on to NamedExtensionManager.__init__, whose default then
\* applies
OnMissingEntrypointsCallback ==
    IF kind = "DriverManager" THEN "warning_on_missing_entrypoint"
    ELSE on_missing_entrypoints_callback

\* the check_func calls one _load_one_plugin call makes: EnabledExtensionManager
\* calls it with the Extension that super()._load_one_plugin returned
CheckFuncCalls(ep, env) ==
    IF /\ kind \in EnabledKinds
       /\ ExtensionManager_load_one_plugin(ep, env).has_ext
    THEN <<[ext |-> ExtensionManager_load_one_plugin(ep, env).ext,
            answer |-> env.check]>>
    ELSE <<>>

\* the missing names taken as the wanted names that no record declares
MissingNames_undeclared(exts) ==
    IF kind \in NamedKinds
    THEN {_names[k] : k \in 1..Len(_names)} \
             {registry[k] : k \in 1..Len(registry)}
    ELSE {}

\* NamedExtensionManager._load_plugins after the loop:
\* set(self._names) - {e.name for e in extensions}
MissingNames(exts) ==
    IF kind \in NamedKinds
    THEN {_names[k] : k \in 1..Len(_names)} \ NameSet(exts)
    ELSE {}

-----------------------------------------------------------------------------
(* Construction: ExtensionManager.__init__ and its overrides *)

\* one iteration of _load_plugins' loop, its except clauses included
LoadOnePlugin ==
    /\ pc = "_load_plugins"
    /\ idx <= Len(registry)
    /\ \E env \in LoadEnv :
         LET r == _load_one_plugin(idx, env)
             h == LoadFailureHandling(r.raised)
         IN  /\ attempted' = Append(attempted, [ep |-> idx, outcome |-> Outcome(r)])
             /\ resolved' = IF r.did_load THEN Append(resolved, idx) ELSE resolved
             /\ check_calls' = check_calls \o CheckFuncCalls(idx, env)
             /\ IF r.raised = "None"
                THEN /\ loaded' = IF r.has_ext THEN Append(loaded, r.ext) ELSE loaded
                     /\ idx' = idx + 1
                     /\ UNCHANGED <<pc, raised, cb_calls, log>>
                ELSE CASE h = "raise" ->
                            /\ pc' = "raised"
                            /\ raised' = r.raised
                            /\ UNCHANGED <<idx, loaded, cb_calls, log>>
                       [] h = "callback" ->
                            /\ cb_calls' = Append(cb_calls,
                                   [manager |-> "self", ep |-> idx, err |-> r.raised])
                            /\ idx' = idx + 1
                            /\ UNCHANGED <<pc, raised, loaded, log>>
                       [] OTHER ->
                            /\ log' = Append(log,
                                   [level |-> "error", what |-> "Could not load",
                                    ep |-> idx, err |-> r.raised])
                            /\ idx' = idx + 1
                            /\ UNCHANGED <<pc, raised, loaded, cb_calls>>
    /\ UNCHANGED <<cache_state, config, missing_calls, by_name, map_args, filter_calls,
                   extensions, _extensions_by_name_cache, _missing_names,
                   resolver_calls, func_calls, ncalls, response, result>>

\* the end of _load_plugins (the missing-names report of the named managers)
\* and self._init_plugins(extensions)
InitPlugins ==
    /\ pc = "_load_plugins"
    /\ idx > Len(registry)
    /\ \E missing \in {MissingNames(loaded)} :
       \E r \in {_init_plugins(loaded, missing)} :
           /\ _missing_names' = missing
           /\ missing_calls' =
                  IF missing # {} /\ OnMissingEntrypointsCallback # "None"
                  THEN Append(missing_calls,
                              [callback |-> OnMissingEntrypointsCallback,
                               missing_names |-> missing])
                  ELSE missing_calls
           /\ log' = IF /\ missing # {}
                        /\ OnMissingEntrypointsCallback = "warning_on_missing_entrypoint"
                     THEN Append(log, [level |-> "warning", what |-> "Could not load",
                                       ep |-> 0, err |-> "None"])
                     ELSE log
           /\ extensions' = r.extensions
           /\ by_name' = IF kind = "NameDispatchExtensionManager"
                         THEN ByName(r.extensions) ELSE by_name
           /\ _extensions_by_name_cache' = r.cache
           /\ resolver_calls' = resolver_calls \o r.calls
           /\ raised' = r.raised
           /\ pc' = IF r.raised = "None" THEN "ready" ELSE "raised"
    /\ UNCHANGED <<cache_state, config, check_calls, map_args, filter_calls,
                   idx, loaded, attempted, resolved, cb_calls,
                   func_calls, ncalls, response, result>>

NoResult == [tag |-> "None"]

\* no map call is running
NoArgs == [filter_func |-> "None", args |-> "None", names |-> <<>>]

\* the constructor's arguments, for a manager of one of the classes kinds
InitOf(kinds) ==
    /\ kind \in kinds
    /\ registry \in SeqsUpTo(Names, MaxRecords)
    /\ invoke_on_load \in BOOLEAN
    /\ on_load_failure_callback \in {"None", "user"}
    /\ conflict_resolver \in IF kind \in {"NamedExtensionManager", "DriverManager"}
                             THEN Resolvers ELSE {"ignore_conflicts"}
    /\ propagate_map_exceptions = FALSE
    /\ _names \in CASE kind = "NamedExtensionManager" -> {<<"a">>, <<"b", "a">>}
                    [] kind \in {"DriverManager", "HookManager"} -> {<<n>> : n \in Names}
                    [] OTHER -> {<<>>}
    /\ _name_order \in IF kind = "NamedExtensionManager" THEN BOOLEAN ELSE {FALSE}
    /\ on_missing_entrypoints_callback \in
           CASE kind = "NamedExtensionManager" ->
                    {"warning_on_missing_entrypoint", "user", "None"}
             [] kind = "HookManager" -> {"None", "user"}
             [] kind = "DriverManager" -> {DefaultOnMissingEntrypointsCallback}
             [] OTHER -> {"None"}
    /\ pc = "_load_plugins"
    /\ idx = 1
    /\ loaded = <<>>
    /\ extensions = <<>>
    /\ _extensions_by_name_cache = NoCache
    /\ _missing_names = {}
    /\ attempted = <<>>
    /\ resolved = <<>>
    /\ cb_calls = <<>>
    /\ resolver_calls = <<>>
    /\ log = <<>>
    /\ func_calls = <<>>
    /\ ncalls = 0
    /\ response = <<>>
    /\ result = NoResult
    /\ raised = "None"
    /\ check_calls = <<>>
    /\ missing_calls = <<>>
    /\ by_name = EmptyDict
    /\ map_args = NoArgs
    /\ filter_calls = <<>>
    /\ CacheUnused

Init == InitOf(Kinds)

Next == LoadOnePlugin \/ InitPlugins

Spec == Init /\ [][Next]_vars

-----------------------------------------------------------------------------
(* DriverManager.driver *)

\* ext.obj if ext.obj else ext.plugin
driver(exts) == IF Truthy(exts[1].obj) THEN exts[1].obj ELSE exts[1].plugin

-----------------------------------------------------------------------------
(* Managers made by ExtensionManager.make_test_instance(extensions, ...) *)

\* the lists of Extensions handed to make_test_instance
TestExtensions ==
    {[k \in 1..Len(ns) |-> Extension(ns[k], k, Plugin(k), None)] :
        ns \in SeqsUpTo(Names, MaxExt)}

\* the state cls.make_test_instance leaves, for the given arguments;
\* NamedExtensionManager.make_test_instance sets _names to the Extensions'
\* names and _name_order to False
MadeTestInstanceOf(cls, exts, propagate, resolver) ==
    /\ kind = cls
    /\ registry = <<>>
    /\ invoke_on_load = FALSE
    /\ on_load_failure_callback = "None"
    /\ on_missing_entrypoints_callback = "None"
    /\ conflict_resolver = resolver
    /\ propagate_map_exceptions = propagate
    /\ _names = IF cls \in NamedKinds THEN NamesOf(exts) ELSE <<>>
    /\ _name_order = FALSE
    /\ by_name = IF cls = "NameDispatchExtensionManager"
                 THEN ByName(exts) ELSE EmptyDict
    /\ check_calls = <<>>
    /\ missing_calls = <<>>
    /\ map_args = NoArgs
    /\ filter_calls = <<>>
    /\ pc = "ready"
    /\ idx = 1
    /\ loaded = <<>>
    /\ extensions = ExtensionManager_init_plugins(exts).extensions
    /\ _extensions_by_name_cache = ExtensionManager_init_plugins(exts).cache
    /\ _missing_names = {}
    /\ attempted = <<>>
    /\ resolved = <<>>
    /\ cb_calls = <<>>
    /\ resolver_calls = <<>>
    /\ log = <<>>
    /\ func_calls = <<>>
    /\ ncalls = 0
    /\ response = <<>>
    /\ result = NoResult
    /\ raised = "None"

\* ExtensionManager.make_test_instance
MadeTestInstance(exts, propagate, resolver) ==
    MadeTestInstanceOf("ExtensionManager", exts, propagate, resolver)

-----------------------------------------------------------------------------
(* Name lookups *)

MaxLookups == 2

\* the names asked for: "c" is carried by no Extension
LookupNames == Names \cup {"c"}

\* no call is running on the constructed manager
Idle == pc \in {"ready", "returned"}

\* manager[name] on a manager of a class that inherits
\* ExtensionManager.__getitem__, as one of the first max calls made on it
GetItemN(max) ==
    /\ Idle
    /\ kind # "HookManager"
    /\ pc' = "ready"
    /\ ncalls < max
    /\ \E name \in LookupNames :
       \E r \in {__getitem__(extensions, _extensions_by_name_cache,
                             conflict_resolver, name)} :
           /\ _extensions_by_name_cache' = r.cache
           /\ resolver_calls' = resolver_calls \o r.calls
           /\ raised' = r.raised
           /\ result' = [tag |-> "__getitem__", name |-> name, ext |-> r.ext]
    /\ ncalls' = ncalls + 1
    /\ UNCHANGED <<cache_state, config, check_calls, missing_calls, by_name, map_args,
                   filter_calls, idx, loaded, extensions, _missing_names, attempted,
                   resolved, cb_calls, log, func_calls, response>>

\* manager[name], one of the calls made on the manager
GetItem == GetItemN(MaxLookups)

InitIndex ==
    /\ CacheUnused
    /\ \E exts \in TestExtensions, resolver \in Resolvers :
           MadeTestInstance(exts, FALSE, resolver)

-----------------------------------------------------------------------------
(* map *)

\* what func(ext, ...) does on one call: return a value or raise
FuncOutcomes == {"ok", "RuntimeError", "AssertionError", "KeyboardInterrupt"}

\* the value func returns for ext
FuncValue(ext) == [value_for |-> ext.entry_point]

\* _invoke_one_plugin with "raise" in place of the logging branch
_invoke_one_plugin_always_raises(outcome) ==
    IF outcome = "ok" THEN "append" ELSE "raise"

\* _invoke_one_plugin without the propagate_map_exceptions test
_invoke_one_plugin_never_raises(outcome) ==
    IF outcome = "ok" THEN "append"
    ELSE IF IsException(outcome) THEN "log" ELSE "raise"

\* _invoke_one_plugin when func(e) ended with outcome: "append" the value to
\* the response, "raise" the error, or "log" it and go on
_invoke_one_plugin(outcome) ==
    IF outcome = "ok" THEN "append"
    ELSE IF IsException(outcome)
         THEN IF propagate_map_exceptions THEN "raise" ELSE "log"
         ELSE "raise"

\* ExtensionManager.map up to its loop, as one of the first max calls made on
\* the manager
MapCallN(max) ==
    /\ Idle
    /\ kind \notin DispatchKinds
    /\ ncalls < max
    /\ ncalls' = ncalls + 1
    /\ idx' = 1
    /\ response' = <<>>
    /\ func_calls' = <<>>
    /\ IF Len(extensions) = 0
       THEN pc' = "raised" /\ raised' = "NoMatches"
       ELSE pc' = "map" /\ raised' = "None"
    /\ UNCHANGED <<cache_state, config, check_calls, missing_calls, by_name, map_args,
                   filter_calls, loaded, extensions, _extensions_by_name_cache,
                   _missing_names, attempted, resolved, cb_calls, resolver_calls,
                   log, result>>

\* manager.map(func), the first call made on the manager
MapCall == MapCallN(1)

\* one iteration of map's loop: self._invoke_one_plugin(response.append, func, e),
\* for a func whose calls end in one of outcomes
InvokeOnePluginOf(outcomes) ==
    /\ pc = "map"
    /\ idx <= Len(extensions)
    /\ \E outcome \in outcomes :
       \E h \in {_invoke_one_plugin(outcome)} :
           /\ func_calls' = Append(func_calls,
                                   [ext |-> extensions[idx], outcome |-> outcome])
           /\ response' = IF h = "append"
                          THEN Append(response, FuncValue(extensions[idx]))
                          ELSE response
           /\ log' = IF h = "log"
                     THEN Append(log, [level |-> "error", what |-> "error calling",
                                       ep |-> extensions[idx].entry_point,
                                       err |-> outcome])
                     ELSE log
           /\ IF h = "raise"
              THEN pc' = "raised" /\ raised' = outcome /\ idx' = idx
              ELSE pc' = pc /\ raised' = raised /\ idx' = idx + 1
    /\ UNCHANGED <<cache_state, config, check_calls, missing_calls, by_name, map_args,
                   filter_calls, loaded, extensions, _extensions_by_name_cache,
                   _missing_names, attempted, resolved, cb_calls, resolver_calls,
                   ncalls, result>>

\* one iteration of map's loop, for any func
InvokeOnePlugin == InvokeOnePluginOf(FuncOutcomes)

\* one iteration of map's loop, for a func that never raises
InvokeTotalFunc == InvokeOnePluginOf({"ok"})

\* return response
MapReturn ==
    /\ pc = "map"
    /\ idx > Len(extensions)
    /\ pc' = "returned"
    /\ result' = [tag |-> "map", value |-> response]
    /\ UNCHANGED <<cache_state, config, check_calls, missing_calls, by_name, map_args,
                   filter_calls, idx, loaded, extensions, _extensions_by_name_cache,
                   _missing_names, attempted, resolved, cb_calls, resolver_calls,
                   log, func_calls, ncalls, response, raised>>

InitMap ==
    /\ CacheUnused
    /\ \E exts \in TestExtensions, propagate \in BOOLEAN :
           MadeTestInstance(exts, propagate, "ignore_conflicts")

NextMap == MapCall \/ InvokeOnePlugin \/ MapReturn

SpecMap == InitMap /\ [][NextMap]_vars

-----------------------------------------------------------------------------
(* DispatchExtensionManager.map and NameDispatchExtensionManager.map *)

\* the filter functions handed to map: each answers from the Extension and the
\* arguments of the call
FilterFuncs == {"name_is", "name_is_not"}

\* the argument lists handed to map: one positional argument, a name
MapArgs == Names

\* filter_func(e, args)
filter_func(f, e, args) ==
    IF f = "name_is" THEN e.name = args ELSE e.name # args

\* DispatchExtensionManager.map(filter_func, func, args) up to its loop, as one
\* of the first max calls made on the manager
DispatchMapCallN(max) ==
    /\ Idle
    /\ kind = "DispatchExtensionManager"
    /\ ncalls < max
    /\ ncalls' = ncalls + 1
    /\ \E f \in FilterFuncs, args \in MapArgs :
           map_args' = [filter_func |-> f, args |-> args, names |-> <<>>]
    /\ idx' = 1
    /\ response' = <<>>
    /\ func_calls' = <<>>
    /\ filter_calls' = <<>>
    /\ IF Len(extensions) = 0
       THEN pc' = "raised" /\ raised' = "NoMatches"
       ELSE pc' = "dispatch_map" /\ raised' = "None"
    /\ UNCHANGED <<cache_state, config, check_calls, missing_calls, by_name, loaded,
                   extensions, _extensions_by_name_cache, _missing_names,
                   attempted, resolved, cb_calls, resolver_calls, log, result>>

\* DispatchExtensionManager.map, one of the calls made on the manager
DispatchMapCall == DispatchMapCallN(MaxLookups)

\* the loop body of DispatchExtensionManager.map calling func whatever
\* filter_func answered
DispatchInvokeOneOf_unfiltered(outcomes) ==
    /\ pc = "dispatch_map"
    /\ idx <= Len(extensions)
    /\ filter_calls' = Append(filter_calls,
           [ext |-> extensions[idx], args |-> map_args.args,
            answer |-> filter_func(map_args.filter_func, extensions[idx],
                                   map_args.args)])
    /\ IF TRUE
       THEN \E outcome \in outcomes :
            \E h \in {_invoke_one_plugin(outcome)} :
                /\ func_calls' = Append(func_calls,
                       [ext |-> extensions[idx], outcome |-> outcome,
                        args |-> map_args.args])
                /\ response' = IF h = "append"
                               THEN Append(response, FuncValue(extensions[idx]))
                               ELSE response
                /\ log' = IF h = "log"
                          THEN Append(log, [level |-> "error",
                                            what |-> "error calling",
                                            ep |-> extensions[idx].entry_point,
                                            err |-> outcome])
                          ELSE log
                /\ IF h = "raise"
                   THEN pc' = "raised" /\ raised' = outcome /\ idx' = idx
                   ELSE pc' = pc /\ raised' = raised /\ idx' = idx + 1
       ELSE /\ idx' = idx + 1
            /\ UNCHANGED <<func_calls, response, log, pc, raised>>
    /\ UNCHANGED <<cache_state, config, check_calls, missing_calls, by_name, map_args,
                   loaded, extensions, _extensions_by_name_cache,
                   _missing_names, attempted, resolved, cb_calls,
                   resolver_calls, ncalls, result>>

\* one iteration of DispatchExtensionManager.map's loop, for a func whose calls
\* end in one of outcomes: filter_func(e, args) and, when it answers true,
\* self._invoke_one_plugin(response.append, func, e, args)
DispatchInvokeOneOf(outcomes) ==
    /\ pc = "dispatch_map"
    /\ idx <= Len(extensions)
    /\ filter_calls' = Append(filter_calls,
           [ext |-> extensions[idx], args |-> map_args.args,
            answer |-> filter_func(map_args.filter_func, extensions[idx],
                                   map_args.args)])
    /\ IF filter_func(map_args.filter_func, extensions[idx], map_args.args)
       THEN \E outcome \in outcomes :
            \E h \in {_invoke_one_plugin(outcome)} :
                /\ func_calls' = Append(func_calls,
                       [ext |-> extensions[idx], outcome |-> outcome,
                        args |-> map_args.args])
                /\ response' = IF h = "append"
                               THEN Append(response, FuncValue(extensions[idx]))
                               ELSE response
                /\ log' = IF h = "log"
                          THEN Append(log, [level |-> "error",
                                            what |-> "error calling",
                                            ep |-> extensions[idx].entry_point,
                                            err |-> outcome])
                          ELSE log
                /\ IF h = "raise"
                   THEN pc' = "raised" /\ raised' = outcome /\ idx' = idx
                   ELSE pc' = pc /\ raised' = raised /\ idx' = idx + 1
       ELSE /\ idx' = idx + 1
            /\ UNCHANGED <<func_calls, response, log, pc, raised>>
    /\ UNCHANGED <<cache_state, config, check_calls, missing_calls, by_name, map_args,
                   loaded, extensions, _extensions_by_name_cache,
                   _missing_names, attempted, resolved, cb_calls,
                   resolver_calls, ncalls, result>>

\* return response
DispatchMapReturn ==
    /\ pc = "dispatch_map"
    /\ idx > Len(extensions)
    /\ pc' = "returned"
    /\ result' = [tag |-> "map", value |-> response]
    /\ UNCHANGED <<cache_state, config, check_calls, missing_calls, by_name, map_args,
                   filter_calls, idx, loaded, extensions,
                   _extensions_by_name_cache, _missing_names, attempted,
                   resolved, cb_calls, resolver_calls, log, func_calls, ncalls,
                   response, raised>>

\* the lists of names handed to NameDispatchExtensionManager.map
MaxNames == 2

NameLists == SeqsUpTo(LookupNames, MaxNames)

\* NameDispatchExtensionManager.map(names, func) up to its loop
NameDispatchMapCall ==
    /\ Idle
    /\ kind = "NameDispatchExtensionManager"
    /\ ncalls < MaxLookups
    /\ ncalls' = ncalls + 1
    /\ \E names \in NameLists :
           map_args' = [filter_func |-> "None", args |-> "None", names |-> names]
    /\ idx' = 1
    /\ response' = <<>>
    /\ func_calls' = <<>>
    /\ pc' = "name_dispatch_map"
    /\ raised' = "None"
    /\ UNCHANGED <<cache_state, config, check_calls, missing_calls, by_name, filter_calls,
                   loaded, extensions, _extensions_by_name_cache,
                   _missing_names, attempted, resolved, cb_calls,
                   resolver_calls, log, result>>

\* one iteration of NameDispatchExtensionManager.map's loop, for a func whose
\* calls end in one of outcomes: e = self.by_name[name], and
\* self._invoke_one_plugin(response.append, func, e) unless that raised KeyError
NameDispatchInvokeOneOf(outcomes) ==
    /\ pc = "name_dispatch_map"
    /\ idx <= Len(map_args.names)
    /\ IF map_args.names[idx] \in DOMAIN by_name
       THEN \E outcome \in outcomes :
            \E h \in {_invoke_one_plugin(outcome)} :
                /\ func_calls' = Append(func_calls,
                       [ext |-> by_name[map_args.names[idx]],
                        outcome |-> outcome])
                /\ response' =
                       IF h = "append"
                       THEN Append(response,
                                   FuncValue(by_name[map_args.names[idx]]))
                       ELSE response
                /\ log' = IF h = "log"
                          THEN Append(log,
                                   [level |-> "error", what |-> "error calling",
                                    ep |-> by_name[map_args.names[idx]].entry_point,
                                    err |-> outcome])
                          ELSE log
                /\ IF h = "raise"
                   THEN pc' = "raised" /\ raised' = outcome /\ idx' = idx
                   ELSE pc' = pc /\ raised' = raised /\ idx' = idx + 1
       ELSE /\ idx' = idx + 1
            /\ UNCHANGED <<func_calls, response, log, pc, raised>>
    /\ UNCHANGED <<cache_state, config, check_calls, missing_calls, by_name, map_args,
                   filter_calls, loaded, extensions, _extensions_by_name_cache,
                   _missing_names, attempted, resolved, cb_calls,
                   resolver_calls, ncalls, result>>

\* return response
NameDispatchMapReturn ==
    /\ pc = "name_dispatch_map"
    /\ idx > Len(map_args.names)
    /\ pc' = "returned"
    /\ result' = [tag |-> "map", value |-> response]
    /\ UNCHANGED <<cache_state, config, check_calls, missing_calls, by_name, map_args,
                   filter_calls, idx, loaded, extensions,
                   _extensions_by_name_cache, _missing_names, attempted,
                   resolved, cb_calls, resolver_calls, log, func_calls, ncalls,
                   response, raised>>

\* the classes whose map is modelled
MapKinds == {"ExtensionManager", "EnabledExtensionManager",
             "NamedExtensionManager"} \cup DispatchKinds

\* ExtensionManager.map, one of the calls made on the manager
MapCallAgain == MapCallN(MaxLookups)

DispatchInvokeTotalFunc == DispatchInvokeOneOf({"ok"})

NameDispatchInvokeTotalFunc == NameDispatchInvokeOneOf({"ok"})

InitDispatch ==
    /\ CacheUnused
    /\ \E cls \in MapKinds, exts \in TestExtensions, propagate \in BOOLEAN :
           MadeTestInstanceOf(cls, exts, propagate, "ignore_conflicts")

\* map calls, with a func that never raises, on managers of the classes that
\* have a map
NextDispatch ==
    \/ MapCallAgain
    \/ InvokeTotalFunc
    \/ MapReturn
    \/ DispatchMapCall
    \/ DispatchInvokeTotalFunc
    \/ DispatchMapReturn
    \/ NameDispatchMapCall
    \/ NameDispatchInvokeTotalFunc
    \/ NameDispatchMapReturn

SpecDispatch == InitDispatch /\ [][NextDispatch]_vars

\* what a filter_func that fails raises
FilterErrors == OrdinaryErrors

\* an iteration of DispatchExtensionManager.map's loop whose filter_func(e, args)
\* raises: the call stands outside _invoke_one_plugin and under no try, so the
\* error leaves map
DispatchFilterRaises ==
    /\ pc = "dispatch_map"
    /\ idx <= Len(extensions)
    /\ \E err \in FilterErrors :
           /\ filter_calls' = Append(filter_calls,
                  [ext |-> extensions[idx], args |-> map_args.args,
                   answer |-> err])
           /\ raised' = err
    /\ pc' = "raised"
    /\ UNCHANGED <<cache_state, config, check_calls, missing_calls, by_name, map_args, idx,
                   loaded, extensions, _extensions_by_name_cache,
                   _missing_names, attempted, resolved, cb_calls,
                   resolver_calls, log, func_calls, ncalls, response, result>>

\* manager.map(filter_func, func, args), the first call made on the manager
DispatchMapOnce == DispatchMapCallN(1)

\* one iteration of DispatchExtensionManager.map's loop, for any func
DispatchInvokeOne == DispatchInvokeOneOf(FuncOutcomes)

InitDispatchMap ==
    /\ CacheUnused
    /\ \E exts \in TestExtensions, propagate \in BOOLEAN :
           MadeTestInstanceOf("DispatchExtensionManager", exts, propagate,
                              "ignore_conflicts")

\* one DispatchExtensionManager.map call whose filter_func and func may raise
NextDispatchMap ==
    \/ DispatchMapOnce
    \/ DispatchInvokeOne
    \/ DispatchFilterRaises
    \/ DispatchMapReturn

SpecDispatchMap == InitDispatchMap /\ [][NextDispatchMap]_vars

-----------------------------------------------------------------------------
(* names(), iteration and items() *)

\* manager.names(), as one of the first max calls made on the manager
GetNamesN(max) ==
    /\ Idle
    /\ ncalls < max
    /\ ncalls' = ncalls + 1
    /\ pc' = "ready"
    /\ raised' = "None"
    /\ result' = [tag |-> "names", value |-> NamesOf(extensions)]
    /\ UNCHANGED <<cache_state, config, check_calls, missing_calls, by_name, map_args,
                   filter_calls, idx, loaded, extensions,
                   _extensions_by_name_cache, _missing_names, attempted,
                   resolved, cb_calls, resolver_calls, log, func_calls, response>>

\* list(iter(manager)), as one of the first max calls made on the manager
IterateN(max) ==
    /\ Idle
    /\ ncalls < max
    /\ ncalls' = ncalls + 1
    /\ pc' = "ready"
    /\ raised' = "None"
    /\ result' = [tag |-> "__iter__", value |-> extensions]
    /\ UNCHANGED <<cache_state, config, check_calls, missing_calls, by_name, map_args,
                   filter_calls, idx, loaded, extensions,
                   _extensions_by_name_cache, _missing_names, attempted,
                   resolved, cb_calls, resolver_calls, log, func_calls, response>>

\* dict.items(): the (name, Extension) pairs of the index
ItemsView(d) == {<<n, d[n]>> : n \in DOMAIN d}

\* manager.items(): self._extensions_by_name.items()
Items ==
    /\ Idle
    /\ pc' = "ready"
    /\ ncalls < MaxLookups
    /\ ncalls' = ncalls + 1
    /\ \E r \in {_extensions_by_name(extensions, _extensions_by_name_cache,
                                     conflict_resolver)} :
           /\ _extensions_by_name_cache' = r.cache
           /\ resolver_calls' = resolver_calls \o r.calls
           /\ raised' = r.raised
           /\ result' = [tag |-> "items",
                         value |-> IF r.raised = "None"
                                   THEN ItemsView(r.d) ELSE {}]
    /\ UNCHANGED <<cache_state, config, check_calls, missing_calls, by_name, map_args,
                   filter_calls, idx, loaded, extensions, _missing_names,
                   attempted, resolved, cb_calls, log, func_calls, response>>

\* HookManager.__getitem__ returning the one Extension the name index holds
HookManager_getitem_resolved(exts, names, name) ==
    IF name # names[1] \/ exts = <<>>
    THEN [raised |-> "KeyError", value |-> <<>>]
    ELSE [raised |-> "None",
          value |-> <<ignore_conflicts(Namespace, name, exts).ext>>]

\* HookManager.__getitem__ on a manager holding exts, made for names[0]
HookManager_getitem(exts, names, name) ==
    IF name # names[1]
    THEN [raised |-> "KeyError", value |-> <<>>]
    ELSE [raised |-> "None", value |-> exts]

\* manager[name] on a HookManager, as one of the first max calls made on it
HookGetItemN(max) ==
    /\ Idle
    /\ kind = "HookManager"
    /\ pc' = "ready"
    /\ ncalls < max
    /\ ncalls' = ncalls + 1
    /\ \E name \in LookupNames :
       \E r \in {HookManager_getitem(extensions, _names, name)} :
           /\ raised' = r.raised
           /\ result' = [tag |-> "HookManager.__getitem__", name |-> name,
                         value |-> r.value]
    /\ UNCHANGED <<cache_state, config, check_calls, missing_calls, by_name, map_args,
                   filter_calls, idx, loaded, extensions,
                   _extensions_by_name_cache, _missing_names, attempted,
                   resolved, cb_calls, resolver_calls, log, func_calls, response>>

-----------------------------------------------------------------------------
(* The first call made on a manager constructed from the registry *)

GetNames == GetNamesN(1)

Iterate == IterateN(1)

HookGetItem == HookGetItemN(1)

NextUse ==
    \/ LoadOnePlugin
    \/ InitPlugins
    \/ GetNames
    \/ Iterate
    \/ HookGetItem
    \/ MapCall
    \/ InvokeTotalFunc
    \/ MapReturn

SpecUse == Init /\ [][NextUse]_vars

-----------------------------------------------------------------------------
(* Indexing a manager constructed from the registry; `name in manager` is   *)
(* the operator __contains__                                                *)

\* manager[name], the first call made on the manager
GetItemOnce == GetItemN(1)

\* the constructor's arguments, for a manager of any class
InitLookup == InitOf(Kinds \cup DispatchKinds)

NextLookup ==
    \/ LoadOnePlugin
    \/ InitPlugins
    \/ GetItemOnce
    \/ HookGetItem

SpecLookup == InitLookup /\ [][NextLookup]_vars

-----------------------------------------------------------------------------
(* Name lookups mixed with the other calls *)

GetNamesAgain == GetNamesN(MaxLookups)

IterateAgain == IterateN(MaxLookups)

NextIndex ==
    \/ GetItem
    \/ Items
    \/ GetNamesAgain
    \/ IterateAgain
    \/ MapCallAgain
    \/ InvokeTotalFunc
    \/ MapReturn

SpecIndex == InitIndex /\ [][NextIndex]_vars

-----------------------------------------------------------------------------
(* Properties of map (SpecMap) *)

\* the Extensions func was called with, in call order
CalledExtensions == [k \in 1..Len(func_calls) |-> func_calls[k].ext]

ReturnedNormally(call) == call.outcome = "ok"

\* the values of the calls that returned normally, in call order
ValuesReturned ==
    [k \in 1..Len(SelectSeq(func_calls, ReturnedNormally)) |->
        FuncValue(SelectSeq(func_calls, ReturnedNormally)[k].ext)]

\* the log holds the error of call k of func
Logged(k) ==
    \E j \in 1..Len(log) :
        /\ log[j].ep = func_calls[k].ext.entry_point
        /\ log[j].err = func_calls[k].outcome

\* C2: under the continue policy map on a non-empty collection never lets an
\* ordinary error of func reach the caller, calls func for every Extension
\* whatever the earlier calls did, and returns exactly the values of the calls
\* that returned normally, in collection order (the empty list when none did).
C2_ContinueMapIsolatesErrors ==
    (~propagate_map_exceptions /\ Len(extensions) > 0) =>
        /\ raised \notin OrdinaryErrors
        /\ CalledExtensions = SubSeq(extensions, 1, Len(func_calls))
        /\ pc = "raised" =>
              /\ Len(func_calls) > 0
              /\ func_calls[Len(func_calls)].outcome \notin OrdinaryErrors \cup {"ok"}
        /\ pc = "returned" =>
              /\ CalledExtensions = extensions
              /\ result = [tag |-> "map", value |-> ValuesReturned]
              /\ (\A k \in 1..Len(func_calls) : func_calls[k].outcome # "ok")
                    => result.value = <<>>

\* C2: a map that went on after func raised for the first Extension
C2_Witness ==
    /\ ~propagate_map_exceptions
    /\ pc = "returned"
    /\ Len(extensions) = 3
    /\ func_calls[1].outcome = "RuntimeError"
    /\ func_calls[2].outcome = "ok"
    /\ func_calls[3].outcome = "RuntimeError"
    /\ Len(result.value) = 1

\* C3: under the propagate policy the first error func raises reaches the
\* caller, every Extension before it was called exactly once and returned, and
\* func is called for no later Extension.
C3_PropagateMapAbortsAtFirstError ==
    (propagate_map_exceptions /\ Len(extensions) > 0) =>
        /\ CalledExtensions = SubSeq(extensions, 1, Len(func_calls))
        /\ \A k \in 1..(Len(func_calls) - 1) : func_calls[k].outcome = "ok"
        /\ (Len(func_calls) > 0 /\ func_calls[Len(func_calls)].outcome # "ok") =>
              /\ pc = "raised"
              /\ raised = func_calls[Len(func_calls)].outcome
        /\ pc = "raised" =>
              /\ Len(func_calls) > 0
              /\ func_calls[Len(func_calls)].outcome # "ok"
              /\ ~ENABLED InvokeOnePlugin
              /\ ~ENABLED MapReturn

\* C3: a map aborted at the second of three Extensions
C3_Witness ==
    /\ propagate_map_exceptions
    /\ pc = "raised"
    /\ raised = "RuntimeError"
    /\ Len(extensions) = 3
    /\ Len(func_calls) = 2

\* C10 as claimed: an AssertionError or KeyboardInterrupt raised by func
\* reaches the caller under both policies and is never logged and dropped.
C10_FatalErrorsLeaveMap ==
    \A k \in 1..Len(func_calls) :
        func_calls[k].outcome \in FatalErrors =>
            /\ k = Len(func_calls)
            /\ pc = "raised"
            /\ raised = func_calls[k].outcome
            /\ ~Logged(k)

\* C10 as amended: a KeyboardInterrupt raised by func reaches the caller under
\* both policies; an AssertionError reaches the caller under the propagate
\* policy only, and under the continue policy it is logged and dropped like
\* any other Exception and map goes on.
C10_OnlyKeyboardInterruptAlwaysLeavesMap ==
    \A k \in 1..Len(func_calls) :
        /\ (\/ func_calls[k].outcome = "KeyboardInterrupt"
            \/ func_calls[k].outcome = "AssertionError" /\ propagate_map_exceptions)
              => /\ k = Len(func_calls)
                 /\ pc = "raised"
                 /\ raised = func_calls[k].outcome
                 /\ ~Logged(k)
        /\ (func_calls[k].outcome = "AssertionError" /\ ~propagate_map_exceptions)
              => /\ Logged(k)
                 /\ raised # "AssertionError"
                 /\ pc = "returned" => CalledExtensions = extensions

\* C10: a map under the continue policy that returned although func raised
\* AssertionError, and one that a KeyboardInterrupt left
C10_Witness ==
    /\ ~propagate_map_exceptions
    /\ Len(func_calls) = 2
    /\ func_calls[1].outcome = "AssertionError"
    /\ func_calls[2].outcome = "KeyboardInterrupt"
    /\ pc = "raised"

-----------------------------------------------------------------------------
(* Properties of the name index (SpecIndex) *)

\* all Extensions of the collection named name, in collection order
AllNamed(name) == SelectSeq(extensions, LAMBDA e : e.name = name)

\* names carried by two or more Extensions
ConflictingNames == {n \in Names : Len(AllNamed(n)) > 1}

\* C4: with ignore_conflicts, manager[name] for a name some Extension carries
\* returns the Extension of that name that is last in collection order,
\* wherever the other Extensions of that name sit.
C4_IgnoreConflictsPicksLast ==
    (/\ conflict_resolver = "ignore_conflicts"
     /\ result.tag = "__getitem__"
     /\ __contains__(extensions, result.name)) =>
        /\ raised = "None"
        /\ result.ext = AllNamed(result.name)[Len(AllNamed(result.name))]

\* C4: a lookup of a name whose two Extensions are not adjacent
C4_Witness ==
    /\ conflict_resolver = "ignore_conflicts"
    /\ NamesOf(extensions) = <<"a", "b", "a">>
    /\ result.tag = "__getitem__"
    /\ result.name = "a"
    /\ result.ext.entry_point = 3

\* C5 as claimed: once a lookup has run, for every name carried by two or more
\* Extensions, wherever they sit, the resolver was called with (namespace,
\* name, all Extensions of that name in collection order), and the lookup of
\* such a name yields the resolver's outcome for that group.
C5_ResolverSeesEveryConflict ==
    result.tag = "__getitem__" =>
        \A n \in ConflictingNames :
            /\ \E k \in 1..Len(resolver_calls) :
                 resolver_calls[k] = [namespace |-> Namespace, name |-> n,
                                      entrypoints |-> AllNamed(n)]
            /\ result.name = n =>
                 /\ raised = CallResolver(conflict_resolver, Namespace, n,
                                          AllNamed(n)).raised
                 /\ raised = "None" =>
                      result.ext = CallResolver(conflict_resolver, Namespace, n,
                                                AllNamed(n)).ext

-----------------------------------------------------------------------------
(* Properties of construction (Spec) *)

Failed(attempt) == attempt.outcome \in OrdinaryErrors

Loaded(attempt) == attempt.outcome = "loaded"

\* the callback calls the failed attempts call for, in order
FailureReports ==
    [k \in 1..Len(SelectSeq(attempted, Failed)) |->
        [manager |-> "self", ep |-> SelectSeq(attempted, Failed)[k].ep,
         err |-> SelectSeq(attempted, Failed)[k].outcome]]

\* the log records the failed attempts call for, in order
FailureLogs ==
    [k \in 1..Len(SelectSeq(attempted, Failed)) |->
        [level |-> "error", what |-> "Could not load",
         ep |-> SelectSeq(attempted, Failed)[k].ep,
         err |-> SelectSeq(attempted, Failed)[k].outcome]]

\* the loop of _load_plugins ran to its end and _init_plugins was called
InitPluginsRan == pc # "_load_plugins" /\ idx > Len(registry)

\* C1: constructing the base manager, a record whose resolution or
\* instantiation raises an ordinary error is dropped, the records after it are
\* still attempted and construction completes; a callback that is set is
\* called once per failed record with (manager, record, error), in order, and
\* for no record that loaded.
C1_BaseLoadFailuresAreIsolated ==
    kind = "ExtensionManager" =>
        /\ [k \in 1..Len(attempted) |-> attempted[k].ep] =
               [k \in 1..Len(attempted) |-> k]
        /\ [k \in 1..Len(loaded) |-> loaded[k].entry_point] =
               [k \in 1..Len(SelectSeq(attempted, Loaded)) |->
                   SelectSeq(attempted, Loaded)[k].ep]
        /\ raised \notin OrdinaryErrors
        /\ pc = "raised" => attempted[Len(attempted)].outcome \in FatalErrors
        /\ pc = "_load_plugins" => ENABLED Next
        /\ pc = "ready" => Len(attempted) = Len(registry) /\ extensions = loaded
        /\ on_load_failure_callback = "user" =>
               cb_calls = FailureReports /\ log = <<>>
        /\ on_load_failure_callback = "None" =>
               cb_calls = <<>> /\ log = FailureLogs

\* C1: a base manager built from three records of which the first failed to
\* resolve and the third to instantiate
C1_Witness ==
    /\ kind = "ExtensionManager"
    /\ on_load_failure_callback = "user"
    /\ pc = "ready"
    /\ [k \in 1..Len(attempted) |-> attempted[k].outcome] =
           <<"ImportError", "loaded", "IOError">>
    /\ Len(cb_calls) = 2
    /\ Len(extensions) = 1

\* C6: a DriverManager whose load loop ran to its end raises NoMatches when it
\* loaded no Extension and MultipleMatches when it loaded more than one,
\* whatever the conflict resolver; a constructed DriverManager holds exactly
\* one Extension, named as wanted.
C6_DriverHoldsExactlyOne ==
    kind = "DriverManager" =>
        /\ \A k \in 1..Len(loaded) : loaded[k].name = _names[1]
        /\ pc = "ready" =>
               /\ InitPluginsRan
               /\ Len(extensions) = 1
               /\ extensions[1].name = _names[1]
        /\ InitPluginsRan =>
               /\ Len(loaded) = 0 => pc = "raised" /\ raised = "NoMatches"
               /\ Len(loaded) > 1 => pc = "raised" /\ raised = "MultipleMatches"
               /\ Len(loaded) = 1 => pc = "ready" /\ extensions = loaded

\* C6: two drivers loaded under a resolver that would pick one
C6_Witness ==
    /\ kind = "DriverManager"
    /\ conflict_resolver = "first_resolver"
    /\ InitPluginsRan
    /\ Len(loaded) = 2
    /\ raised = "MultipleMatches"

\* C7 as claimed: .driver of a constructed DriverManager is the instantiated
\* object whenever invoke_on_load was requested, whatever the plugin's
\* instantiation returned, and the raw loadable otherwise.
C7_DriverIsTheInstanceWhenInvoked ==
    (kind = "DriverManager" /\ pc = "ready") =>
        driver(extensions) = IF invoke_on_load THEN extensions[1].obj
                             ELSE extensions[1].plugin

\* C8 as claimed: in every manager variant, the DriverManager without a
\* callback of the caller's included, a failed record never aborts
\* construction and is reported through the callback or the log.
C8_LoadFailureNeverAbortsConstruction ==
    /\ raised \notin OrdinaryErrors
    /\ InitPluginsRan => Len(attempted) = Len(registry)
    /\ cb_calls = IF on_load_failure_callback = "user"
                  THEN FailureReports ELSE <<>>
    /\ SelectSeq(log, LAMBDA l : l.level = "error") =
           IF on_load_failure_callback = "user" THEN <<>> ELSE FailureLogs

\* C8 as amended: a failed record is isolated (construction is not aborted by
\* it, the later records are attempted, it is reported once, through the
\* callback when one was given and else through the log) in every variant
\* constructed with a callback, and in every variant but the DriverManager
\* constructed without one; a DriverManager constructed without a callback
\* re-raises the first failure, which aborts construction with no later record
\* attempted.
C8_LoadFailureIsolatedButForDefaultDriver ==
    IF kind = "DriverManager" /\ on_load_failure_callback = "None"
    THEN /\ cb_calls = <<>>
         /\ \A k \in 1..Len(attempted) :
                Failed(attempted[k]) =>
                    /\ k = Len(attempted)
                    /\ pc = "raised"
                    /\ raised = attempted[k].outcome
                    /\ extensions = <<>>
    ELSE /\ raised \notin OrdinaryErrors
         /\ pc = "raised" =>
                \/ InitPluginsRan
                \/ attempted[Len(attempted)].outcome \in FatalErrors
         /\ InitPluginsRan => Len(attempted) = Len(registry)
         /\ cb_calls = IF on_load_failure_callback = "user"
                       THEN FailureReports ELSE <<>>
         /\ SelectSeq(log, LAMBDA l : l.level = "error") =
                IF on_load_failure_callback = "user" THEN <<>> ELSE FailureLogs

\* C8: a DriverManager given a callback that went on after a failed record
C8_Witness ==
    /\ kind = "DriverManager"
    /\ on_load_failure_callback = "user"
    /\ pc = "ready"
    /\ Len(attempted) = 3
    /\ attempted[1].outcome = "ImportError"
    /\ attempted[3].outcome = "loaded"
    /\ Len(cb_calls) = 1

\* C9: a KeyboardInterrupt or AssertionError raised while a record is resolved
\* or instantiated reaches the caller: no callback call and no log record is
\* made for it, no later record is attempted and no manager is produced.
C9_FatalErrorsAbortConstruction ==
    \A k \in 1..Len(attempted) :
        attempted[k].outcome \in FatalErrors =>
            /\ k = Len(attempted)
            /\ pc = "raised"
            /\ raised = attempted[k].outcome
            /\ \A j \in 1..Len(cb_calls) : cb_calls[j].ep # attempted[k].ep
            /\ \A j \in 1..Len(log) : log[j].ep # attempted[k].ep
            /\ extensions = <<>>
            /\ ~ENABLED Next

\* C9: an AssertionError of the second of three records, with a callback set
C9_Witness ==
    /\ on_load_failure_callback = "user"
    /\ Len(registry) = 3
    /\ Len(attempted) = 2
    /\ attempted[1].outcome = "ImportError"
    /\ attempted[2].outcome = "AssertionError"
    /\ pc = "raised"
    /\ raised = "AssertionError"

-----------------------------------------------------------------------------
(* Properties of the calls made on a constructed manager (SpecUse) *)

\* the registry positions of the records whose _load_one_plugin call returned
\* an Extension, in registry order
Survivors ==
    [k \in 1..Len(SelectSeq(attempted, Loaded)) |->
        SelectSeq(attempted, Loaded)[k].ep]

\* the declared names of those records
SurvivorNames == [k \in 1..Len(Survivors) |-> registry[Survivors[k]]]

\* C11: for the base manager, the EnabledExtensionManager and the
\* NamedExtensionManager without name_order, the collection holds the records
\* that survived resolution and filtering, in registry order; names() returns
\* their names and iteration yields their Extensions in that order; map with a
\* func that never raises calls it once per Extension, in that order, and
\* returns the results in that order (on an empty collection it makes no call
\* and raises NoMatches).
C11_NamesIterationAndMapFollowRegistryOrder ==
    (/\ kind \in {"ExtensionManager", "EnabledExtensionManager",
                  "NamedExtensionManager"}
     /\ ~_name_order
     /\ pc \in {"ready", "map", "returned"}) =>
        /\ [k \in 1..Len(extensions) |-> extensions[k].entry_point] = Survivors
        /\ [k \in 1..Len(extensions) |-> extensions[k].name] = SurvivorNames
        /\ result.tag = "names" => result.value = SurvivorNames
        /\ result.tag = "__iter__" =>
               /\ [k \in 1..Len(result.value) |-> result.value[k].name] =
                      SurvivorNames
               /\ result.value = extensions
        /\ pc \in {"map", "returned"} =>
               /\ CalledExtensions = SubSeq(extensions, 1, Len(func_calls))
               /\ response = [k \in 1..Len(func_calls) |->
                                 FuncValue(extensions[k])]
        /\ pc = "returned" =>
               /\ Len(func_calls) = Len(extensions)
               /\ [k \in 1..Len(func_calls) |-> func_calls[k].ext.name] =
                      SurvivorNames
               /\ result = [tag |-> "map", value |-> response]
               /\ Len(result.value) = Len(extensions)

\* C11: a map over the two Extensions left of three records after check_func
\* turned the second one down
C11_Witness ==
    /\ kind = "EnabledExtensionManager"
    /\ registry = <<"a", "b", "a">>
    /\ [k \in 1..Len(attempted) |-> attempted[k].outcome] =
           <<"loaded", "None", "loaded">>
    /\ pc = "returned"
    /\ Len(func_calls) = 2
    /\ Len(result.value) = 2

-----------------------------------------------------------------------------
(* Properties of map in the classes that have one (SpecDispatch) *)

\* C12 as claimed: in every class that has a map, the NameDispatchExtensionManager
\* included, a map call on a manager whose collection is empty raises
\* NoMatches and calls neither func nor a filter.
C12_MapOnEmptyRaisesNoMatches ==
    (extensions = <<>> /\ ncalls > 0) =>
        /\ pc # "returned"
        /\ pc = "raised" => raised = "NoMatches"
        /\ func_calls = <<>>
        /\ filter_calls = <<>>

-----------------------------------------------------------------------------
(* Properties of the memoized name index (SpecIndex) *)

\* the name index has been built and kept
IndexBuilt == ~_extensions_by_name_cache.is_none

\* C13: once a lookup or items() has built the name index, no later call
\* (manager[name], items(), map, names(), iteration) changes it or calls the
\* conflict resolver again: manager[name] returns the Extension the index holds
\* for that name and items() returns the pairs of that same index.
C13_IndexIsMemoized ==
    [][IndexBuilt =>
          /\ _extensions_by_name_cache' = _extensions_by_name_cache
          /\ resolver_calls' = resolver_calls
          /\ GetItem =>
                IF result'.name \in DOMAIN _extensions_by_name_cache.d
                THEN /\ raised' = "None"
                     /\ result'.ext = _extensions_by_name_cache.d[result'.name]
                ELSE raised' = "KeyError"
          /\ Items =>
                /\ raised' = "None"
                /\ result'.value = ItemsView(_extensions_by_name_cache.d)]_vars

\* C13: an index built with one resolver call, and a map call run after it
C13_Witness ==
    /\ IndexBuilt
    /\ conflict_resolver = "first_resolver"
    /\ Len(resolver_calls) = 1
    /\ ncalls = 2
    /\ pc = "returned"
    /\ Len(func_calls) = 3

\* the Extensions of the collection
ExtensionSet == {extensions[k] : k \in 1..Len(extensions)}

\* C14: with a resolver that returns a member of its group, the name index has
\* one key per distinct name of the collection, each with an Extension of the
\* collection that carries that name, and so has items(); no call changes the
\* collection, so names(), iteration and map still visit every Extension, two
\* of one name included.
C14_IndexKeysAreTheDistinctNames ==
    /\ [](conflict_resolver # "error_on_conflict" =>
            /\ raised # "MultipleMatches"
            /\ IndexBuilt =>
                  /\ DOMAIN _extensions_by_name_cache.d = NameSet(extensions)
                  /\ \A n \in NameSet(extensions) :
                         /\ _extensions_by_name_cache.d[n] \in ExtensionSet
                         /\ _extensions_by_name_cache.d[n].name = n
            /\ result.tag = "items" =>
                  /\ IndexBuilt
                  /\ {p[1] : p \in result.value} = NameSet(extensions)
                  /\ Cardinality(result.value) = Cardinality(NameSet(extensions))
                  /\ \A p \in result.value :
                         p[2] \in ExtensionSet /\ p[2].name = p[1]
            /\ result.tag = "names" => result.value = NamesOf(extensions)
            /\ result.tag = "__iter__" => result.value = extensions
            /\ (result.tag = "map" /\ pc = "returned") =>
                  /\ CalledExtensions = extensions
                  /\ Len(result.value) = Len(extensions))
    /\ [][extensions' = extensions]_vars

\* C14: an index of two keys over three Extensions, two of them of one name,
\* and names() still listing the three
C14_Witness ==
    /\ IndexBuilt
    /\ Cardinality(DOMAIN _extensions_by_name_cache.d) = 2
    /\ result.tag = "names"
    /\ result.value = <<"a", "b", "a">>

-----------------------------------------------------------------------------
(* Properties of the named and the enabled managers' construction (Spec) *)

\* set(self._names)
Wanted == {_names[k] : k \in 1..Len(_names)}

\* the registry positions in seq, a sequence of records with an ep field
EpsOf(seq) == {seq[k].ep : k \in 1..Len(seq)}

\* C15: in a NamedExtensionManager (and the managers derived from it) a record
\* whose name is not wanted is turned down before it is resolved: ep.load() is
\* not called for it, so it is not instantiated, no on_load_failure_callback
\* call and no log record is made for it, and it is not in the collection;
\* every Extension of the collection has a wanted name.
C15_UnwantedNamesAreVetoedBeforeLoad ==
    kind \in NamedKinds =>
        /\ \A k \in 1..Len(attempted) :
               registry[attempted[k].ep] \notin Wanted =>
                   /\ attempted[k].outcome = "None"
                   /\ \A j \in 1..Len(resolved) : resolved[j] # attempted[k].ep
                   /\ attempted[k].ep \notin EpsOf(cb_calls)
                   /\ attempted[k].ep \notin EpsOf(log)
                   /\ \A j \in 1..Len(loaded) :
                          loaded[j].entry_point # attempted[k].ep
                   /\ \A j \in 1..Len(extensions) :
                          extensions[j].entry_point # attempted[k].ep
        /\ \A j \in 1..Len(resolved) : registry[resolved[j]] \in Wanted
        /\ NameSet(loaded) \subseteq Wanted
        /\ NameSet(extensions) \subseteq Wanted

\* C15: a NamedExtensionManager wanting "a", built from a record named "b",
\* which it turned down, and one named "a", which it loaded
C15_Witness ==
    /\ kind = "NamedExtensionManager"
    /\ _names = <<"a">>
    /\ registry = <<"b", "a">>
    /\ pc = "ready"
    /\ [k \in 1..Len(attempted) |-> attempted[k].outcome] = <<"None", "loaded">>
    /\ resolved = <<2>>
    /\ Len(extensions) = 1

Passed(call) == call.answer

\* C19: an EnabledExtensionManager calls check_func once for each record that
\* was resolved (and instantiated, with invoke_on_load) without error, after
\* that and with the Extension made of it, in registry order; a record that
\* check_func turns down is not in the collection and no
\* on_load_failure_callback call or log record is made for it; the collection
\* is the Extensions that check_func accepted, in registry order.
C19_CheckRunsAfterLoad ==
    kind = "EnabledExtensionManager" =>
        /\ [k \in 1..Len(check_calls) |-> check_calls[k].ext.entry_point] =
               [k \in 1..Len(SelectSeq(attempted,
                                       LAMBDA a : a.outcome \in {"loaded", "None"})) |->
                   SelectSeq(attempted,
                             LAMBDA a : a.outcome \in {"loaded", "None"})[k].ep]
        /\ \A k \in 1..Len(check_calls) :
               /\ \E j \in 1..Len(resolved) :
                      resolved[j] = check_calls[k].ext.entry_point
               /\ check_calls[k].ext.name = registry[check_calls[k].ext.entry_point]
               /\ check_calls[k].ext.plugin = Plugin(check_calls[k].ext.entry_point)
               /\ IF invoke_on_load
                  THEN check_calls[k].ext.obj.kind = "obj"
                  ELSE check_calls[k].ext.obj = None
               /\ ~check_calls[k].answer =>
                      /\ attempted[check_calls[k].ext.entry_point].outcome = "None"
                      /\ check_calls[k].ext.entry_point \notin EpsOf(cb_calls)
                      /\ check_calls[k].ext.entry_point \notin EpsOf(log)
                      /\ \A j \in 1..Len(loaded) : loaded[j] # check_calls[k].ext
        /\ loaded = [k \in 1..Len(SelectSeq(check_calls, Passed)) |->
                        SelectSeq(check_calls, Passed)[k].ext]
        /\ cb_calls = IF on_load_failure_callback = "user"
                      THEN FailureReports ELSE <<>>
        /\ pc = "ready" => extensions = loaded

\* C19: of three records the first passed the check, the second was turned
\* down after it had been instantiated and the third failed to instantiate
C19_Witness ==
    /\ kind = "EnabledExtensionManager"
    /\ invoke_on_load
    /\ on_load_failure_callback = "user"
    /\ pc = "ready"
    /\ [k \in 1..Len(attempted) |-> attempted[k].outcome] =
           <<"loaded", "None", "IOError">>
    /\ Len(check_calls) = 2
    /\ ~check_calls[2].answer
    /\ check_calls[2].ext.obj.kind = "obj"
    /\ Len(cb_calls) = 1
    /\ Len(extensions) = 1


\* the first position of name in the wanted list
WantedRank(name) == CHOOSE k \in 1..Len(_names) : _names[k] = name

\* C17 as claimed: with name_order the constructed NamedExtensionManager holds
\* exactly the Extensions that were loaded, each once (none dropped, none
\* twice), arranged so that their names follow the order of the wanted list,
\* the missing names left out.
C17_NameOrderReordersTheLoaded ==
    (kind = "NamedExtensionManager" /\ _name_order /\ pc = "ready") =>
        /\ Len(extensions) = Len(loaded)
        /\ {extensions[k] : k \in 1..Len(extensions)} =
               {loaded[k] : k \in 1..Len(loaded)}
        /\ \A i, j \in 1..Len(extensions) :
               i < j => WantedRank(extensions[i].name) <=
                            WantedRank(extensions[j].name)
        /\ NameSet(extensions) = Wanted \ _missing_names

-----------------------------------------------------------------------------
(* Properties of HookManager.__getitem__ (SpecUse) *)

\* C18: manager[name] on a HookManager returns, for the hook's name, the whole
\* collection: every loaded Extension, all of that name, in registry order,
\* the conflict resolver never called and no name index built; for any other
\* name it raises KeyError.
C18_HookIndexingReturnsTheCollection ==
    (kind = "HookManager" /\ result.tag = "HookManager.__getitem__") =>
        /\ resolver_calls = <<>>
        /\ ~IndexBuilt
        /\ IF result.name = _names[1]
           THEN /\ raised = "None"
                /\ result.value = extensions
                /\ result.value = loaded
                /\ [k \in 1..Len(result.value) |-> result.value[k].entry_point] =
                       Survivors
                /\ \A k \in 1..Len(result.value) :
                       result.value[k].name = result.name
           ELSE raised = "KeyError"

\* C18: a hook named "a" with two Extensions, the records before and after one
\* named "b", both returned by manager["a"]
C18_Witness ==
    /\ kind = "HookManager"
    /\ registry = <<"a", "b", "a">>
    /\ _names = <<"a">>
    /\ result.tag = "HookManager.__getitem__"
    /\ result.name = "a"
    /\ [k \in 1..Len(result.value) |-> result.value[k].entry_point] = <<1, 3>>

-----------------------------------------------------------------------------
(* Properties of DispatchExtensionManager.map (SpecDispatch) *)

\* the Extensions filter_func was called with, in call order
FilteredExtensions == [k \in 1..Len(filter_calls) |-> filter_calls[k].ext]

\* the filter_func calls that answered true
Accepted(call) == call.answer

\* the Extensions of the collection that f accepts for args, in collection
\* order
Selected(f, args) ==
    SelectSeq(extensions, LAMBDA e : filter_func(f, e, args))

\* C20: a DispatchExtensionManager.map call, with a func that returns, calls
\* filter_func once for each Extension of the collection, in collection order
\* and with the call's arguments, and calls func, with those arguments, for
\* exactly the Extensions filter_func accepted, in that order; what a call
\* selects depends on its own filter and arguments only, and no call changes
\* the collection.
C20_DispatchMapFiltersEveryCall ==
    /\ [](kind = "DispatchExtensionManager" =>
            /\ pc \in {"dispatch_map", "returned"} =>
                  /\ FilteredExtensions = SubSeq(extensions, 1, idx - 1)
                  /\ \A k \in 1..Len(filter_calls) :
                         /\ filter_calls[k].args = map_args.args
                         /\ filter_calls[k].answer =
                                filter_func(map_args.filter_func,
                                            filter_calls[k].ext, map_args.args)
                  /\ CalledExtensions =
                         [k \in 1..Len(SelectSeq(filter_calls, Accepted)) |->
                             SelectSeq(filter_calls, Accepted)[k].ext]
                  /\ \A k \in 1..Len(func_calls) :
                         func_calls[k].args = map_args.args
            /\ pc = "returned" =>
                  /\ FilteredExtensions = extensions
                  /\ CalledExtensions =
                         Selected(map_args.filter_func, map_args.args)
                  /\ result.value =
                         [k \in 1..Len(CalledExtensions) |->
                             FuncValue(CalledExtensions[k])])
    /\ [][extensions' = extensions]_vars

\* C20: a second map call that has selected the Extensions named "b" after a
\* first call returned the results for those named "a"
C20_Witness ==
    /\ kind = "DispatchExtensionManager"
    /\ NamesOf(extensions) = <<"a", "b", "a">>
    /\ ncalls = 2
    /\ pc = "dispatch_map"
    /\ idx > Len(extensions)
    /\ result = [tag |-> "map", value |-> <<FuncValue(extensions[1]),
                                            FuncValue(extensions[3])>>]
    /\ response = <<FuncValue(extensions[2])>>
    /\ Len(filter_calls) = 3

-----------------------------------------------------------------------------
(* Properties of NameDispatchExtensionManager.map (SpecDispatch) *)

\* the names of a list, as a set
Range(seq) == {seq[k] : k \in 1..Len(seq)}

\* the Extensions of the collection whose name occurs in names, in collection
\* order
NamedIn(names) == SelectSeq(extensions, LAMBDA e : e.name \in Range(names))

\* C21: a NameDispatchExtensionManager.map(names, func) call that returned has
\* called func exactly once for each Extension of the collection whose name
\* occurs in names, in collection order, and returns func's values in that
\* order; names that no Extension carries raise nothing.
C21_NameDispatchMapIsAFilteredWalk ==
    (kind = "NameDispatchExtensionManager" /\ pc = "returned") =>
        /\ raised = "None"
        /\ CalledExtensions = NamedIn(map_args.names)
        /\ result.value = [k \in 1..Len(NamedIn(map_args.names)) |->
                              FuncValue(NamedIn(map_args.names)[k])]

-----------------------------------------------------------------------------
(* Properties of DispatchExtensionManager.map with functions that raise
   (SpecDispatchMap) *)

\* the filter_func calls that raised
FilterRaised(call) == call.answer \in FilterErrors

\* C28: under the continue policy a DispatchExtensionManager.map call on a
\* non-empty collection lets no ordinary error of filter_func or of func reach
\* the caller: every Extension is still filtered, and the call returns the
\* values of the func calls that returned normally.
C28_DispatchMapIsolatesBothFunctions ==
    (~propagate_map_exceptions /\ Len(extensions) > 0) =>
        /\ raised \notin OrdinaryErrors
        /\ FilteredExtensions = SubSeq(extensions, 1, Len(filter_calls))
        /\ pc = "raised" =>
              /\ Len(func_calls) > 0
              /\ func_calls[Len(func_calls)].outcome \notin OrdinaryErrors \cup {"ok"}
        /\ pc = "returned" =>
              /\ FilteredExtensions = extensions
              /\ result = [tag |-> "map", value |-> ValuesReturned]

-----------------------------------------------------------------------------
(* Containment and indexing (SpecLookup) *)

\* manager[name] on the constructed manager, by its class
Indexed(name) ==
    IF kind = "HookManager"
    THEN HookManager_getitem(extensions, _names, name)
    ELSE __getitem__(extensions, _extensions_by_name_cache, conflict_resolver,
                     name)

\* the constructor returned a manager whose resolver does not raise
Constructed == Idle /\ conflict_resolver # "error_on_conflict"

\* C29 as claimed: on a constructed manager of any class, name in manager is
\* true exactly when manager[name] returns, and what it returns is an
\* Extension of the collection carrying that name, or a non-empty list of such.
C29_ContainmentAgreesWithIndexing ==
    Constructed =>
        \A name \in LookupNames :
            /\ __contains__(extensions, name) <=> Indexed(name).raised = "None"
            /\ (Indexed(name).raised = "None" /\ kind = "HookManager") =>
                  /\ Indexed(name).value # <<>>
                  /\ \A k \in 1..Len(Indexed(name).value) :
                         /\ Indexed(name).value[k].name = name
                         /\ Indexed(name).value[k] \in Range(extensions)
            /\ (Indexed(name).raised = "None" /\ kind # "HookManager") =>
                  /\ Indexed(name).ext.name = name
                  /\ Indexed(name).ext \in Range(extensions)

\* C29 as amended: on a constructed manager of a class other than HookManager,
\* name in manager is true exactly when manager[name] returns, and it returns
\* an Extension of the collection carrying that name. On a HookManager,
\* manager[name] returns exactly when name is the manager's own name, and it
\* returns the whole collection, whose Extensions all carry that name: name in
\* manager implies that manager[name] returns, and the two differ exactly for
\* the own name of a HookManager that loaded nothing, where manager[name]
\* returns the empty list. A finished lookup call reports the same.
C29_ContainmentAgreesButForAnEmptyHook ==
    Constructed =>
        /\ \A name \in LookupNames :
            /\ kind # "HookManager" =>
                  /\ __contains__(extensions, name)
                        <=> Indexed(name).raised = "None"
                  /\ Indexed(name).raised \in {"None", "KeyError"}
                  /\ Indexed(name).raised = "None" =>
                        /\ Indexed(name).ext.name = name
                        /\ Indexed(name).ext \in Range(extensions)
            /\ kind = "HookManager" =>
                  /\ Indexed(name).raised = "None" <=> name = _names[1]
                  /\ Indexed(name).raised \in {"None", "KeyError"}
                  /\ __contains__(extensions, name)
                        => Indexed(name).raised = "None"
                  /\ Indexed(name).raised = "None" =>
                        /\ Indexed(name).value = extensions
                        /\ \A k \in 1..Len(extensions) :
                               extensions[k].name = name
                  /\ (Indexed(name).raised = "None"
                        /\ ~__contains__(extensions, name))
                        <=> (name = _names[1] /\ extensions = <<>>)
        /\ result.tag = "__getitem__" =>
              /\ raised = "None" <=> __contains__(extensions, result.name)
              /\ raised = "None" =>
                    /\ result.ext.name = result.name
                    /\ result.ext \in Range(extensions)
        /\ result.tag = "HookManager.__getitem__" =>
              /\ raised = "None" <=> result.name = _names[1]
              /\ raised = "None" => result.value = extensions

\* C29: manager['a'] on a HookManager made for "a" that loaded nothing returned
\* the empty list, while 'a' in manager is false
C29_Witness ==
    /\ kind = "HookManager"
    /\ _names = <<"a">>
    /\ extensions = <<>>
    /\ result.tag = "HookManager.__getitem__"
    /\ result.name = "a"
    /\ raised = "None"
    /\ result.value = <<>>
    /\ ~__contains__(extensions, "a")

-----------------------------------------------------------------------------
(* stevedore._cache: the environment fingerprint *)

\* the manager's fields, which no call of stevedore._cache touches
manager_state == <<config, pc, idx, loaded, extensions,
                   _extensions_by_name_cache, _missing_names, attempted,
                   resolved, cb_calls, check_calls, missing_calls, by_name,
                   map_args, filter_calls, resolver_calls, log, func_calls,
                   ncalls, response, result, raised>>

\* no manager is being constructed or used
ManagerUnused == MadeTestInstance(<<>>, FALSE, "ignore_conflicts")

\* struct's format 'f': an IEEE 754 binary32, with a significand of 24 bits
SignificandBits == 24

\* the modification times os.stat reports, in whole seconds: two that are one
\* second apart and one 200 seconds later
Mtimes == {1700000000, 1700000001, 1700000200}

\* _get_mtime's answer for a name that does not exist
NoMtime == 0 - 1

RECURSIVE Exponent(_)
\* the e with 2^e <= n < 2^(e+1), for n >= 1
Exponent(n) == IF n < 2 THEN 0 ELSE 1 + Exponent(n \div 2)

\* the binary32 nearest to the whole number n >= 0 (ties to even)
Binary32(n) ==
    IF n < 2^SignificandBits THEN n
    ELSE LET q == 2^(Exponent(n) - (SignificandBits - 1))
             lo == (n \div q) * q
         IN  IF 2 * (n - lo) < q THEN lo
             ELSE IF 2 * (n - lo) > q THEN lo + q
             ELSE IF (n \div q) % 2 = 0 THEN lo ELSE lo + q

\* _ftobytes(f) == struct.Struct('f').pack(f): the four bytes of the binary32
\* nearest to f
_ftobytes(f) ==
    [kind |-> "float", s |-> "",
     f |-> IF f < 0 THEN 0 - Binary32(0 - f) ELSE Binary32(f)]

\* s.encode('utf-8')
Encode(s) == [kind |-> "str", s |-> s, f |-> 0]

\* h.update(bytes): the hash runs over the concatenation of everything it was
\* fed, so what a string ends and the next begins with is not told apart; h is
\* the list of maximal runs of string bytes and of packed floats fed so far
Update(h, b) ==
    IF b.kind = "str" /\ Len(h) > 0 /\ h[Len(h)].kind = "str"
    THEN [h EXCEPT ![Len(h)] = Encode(h[Len(h)].s \o b.s)]
    ELSE Append(h, b)

\* _get_mtime(name) in environment env
_get_mtime(env, name) ==
    IF name \in DOMAIN env.mtime THEN env.mtime[name] ELSE NoMtime

\* glob.iglob(entry/*.dist-info/entry_points.txt), then *.egg-info
Glob(env, entry) ==
    IF entry \in DOMAIN env.ep_files THEN env.ep_files[entry] ELSE <<>>

RECURSIVE HashFiles(_, _, _)
\* the inner loop of _hash_settings_for_path over the files glob found
HashFiles(env, found, acc) ==
    IF found = <<>> THEN acc
    ELSE HashFiles(env, Tail(found),
             [h |-> Update(Update(acc.h, Encode(Head(found))),
                           _ftobytes(_get_mtime(env, Head(found)))),
              paths |-> Append(acc.paths,
                               <<Head(found), _get_mtime(env, Head(found))>>)])

RECURSIVE HashEntries(_, _, _)
\* the loop of _hash_settings_for_path over the entries of path
HashEntries(env, path, acc) ==
    IF path = <<>> THEN acc
    ELSE HashEntries(env, Tail(path),
             HashFiles(env, Glob(env, Head(path)),
                 [h |-> Update(Update(acc.h, Encode(Head(path))),
                               _ftobytes(_get_mtime(env, Head(path)))),
                  paths |-> Append(acc.paths,
                                   <<Head(path), _get_mtime(env, Head(path))>>)]))

\* _hash_settings_for_path(path) in environment env; h.hexdigest() is taken to
\* tell apart any two byte strings, so the digest is the hashed bytes
_hash_settings_for_path(env, path) ==
    HashEntries(env, path,
        [h |-> Update(Update(<<>>, Encode(env.executable)), Encode(env.prefix)),
         paths |-> <<>>])

\* tuple(sys.path) in environment env
SysPath(env) == env.path

\* the name of the entry_points.txt beneath a path entry
EpFile(entry) == entry \o "/p.dist-info/entry_points.txt"

\* the environments: interpreter path, prefix, search path, the modification
\* time of the search path's first entry and the entry_points.txt found
\* beneath it, if any; the entry "/t" does not exist
Environments ==
    {[executable |-> x, prefix |-> p, path |-> sp,
      mtime |-> IF fm = NoMtime THEN ("/s" :> m)
                ELSE ("/s" :> m) @@ (EpFile("/s") :> fm),
      ep_files |-> IF fm = NoMtime THEN ("/s" :> <<>>)
                   ELSE ("/s" :> <<EpFile("/s")>>)] :
        x \in {"/a/python", "/tmp/python"}, p \in {"/a", "/usr"},
        sp \in {<<"/s">>, <<"/s", "/t">>},
        m \in Mtimes, fm \in {NoMtime, 1700000000}}

\* the number of _hash_settings_for_path calls followed
MaxHashed == 2

\* _hash_settings_for_path(tuple(sys.path))
HashSettings ==
    /\ Len(hashed) < MaxHashed
    /\ hashed' = Append(hashed,
           [env |-> environ,
            digest |-> _hash_settings_for_path(environ, SysPath(environ)).h,
            path_values |->
                _hash_settings_for_path(environ, SysPath(environ)).paths])
    /\ UNCHANGED <<manager_state, environ, entry_points, files, disable_marker,
                   _disable_caching, _internal, ENTRY_POINT_CACHE, cpc, frame,
                   last_call, persisted>>

\* packages are installed or removed, or another interpreter is used
ChangeEnvironment ==
    /\ Len(hashed) > 0
    /\ Len(hashed) < MaxHashed
    /\ environ' \in Environments \ {environ}
    /\ UNCHANGED <<manager_state, entry_points, files, disable_marker,
                   _disable_caching, _internal, ENTRY_POINT_CACHE, cpc, frame,
                   last_call, persisted, hashed>>

InitHash ==
    /\ ManagerUnused
    /\ environ \in Environments
    /\ entry_points = <<>>
    /\ files = <<>>
    /\ disable_marker = FALSE
    /\ _disable_caching = <<>>
    /\ _internal = <<>>
    /\ ENTRY_POINT_CACHE = <<>>
    /\ cpc = <<>>
    /\ frame = <<>>
    /\ last_call = <<>>
    /\ persisted = <<>>
    /\ hashed = <<>>

NextHash == HashSettings \/ ChangeEnvironment

SpecHash == InitHash /\ [][NextHash]_vars

\* C27: two environments that differ in the interpreter path, the prefix, the
\* search path, the entry_points.txt files found or a modification time have
\* different fingerprints.
C27_FingerprintSeparatesEnvironments ==
    \A i, j \in 1..Len(hashed) :
        hashed[i].env # hashed[j].env => hashed[i].digest # hashed[j].digest

-----------------------------------------------------------------------------
(* stevedore._cache: the dataset and the cache file *)

\* importlib.metadata.EntryPoint(name, value, group) of the namespace
EpRecords == {[name |-> "a", value |-> "m:x"], [name |-> "a", value |-> "m:y"],
              [name |-> "b", value |-> "m:x"]}

\* the records a scan of the namespace finds, at most
MaxEps == 2

\* the groups asked for: no distribution declares "missing"
QueryGroups == {Namespace, "missing"}

RECURSIVE Dedup(_, _)
\* the loop of _build_cacheable_data over one group: an item seen before is
\* skipped
Dedup(eps, acc) ==
    IF eps = <<>> THEN acc
    ELSE Dedup(Tail(eps),
               IF \E k \in 1..Len(acc) : acc[k] = Head(eps)
               THEN acc ELSE Append(acc, Head(eps)))

\* _build_cacheable_data() when entry_points() returns eps for the namespace
_build_cacheable_data(eps) == [shape |-> "groups", eps |-> Dedup(eps, <<>>)]

\* a dump that writes the names without the values
CellOf_without_value(r) == r.name \o "=" \o "m:x"

\* what json.dump writes for one record, and the record json.load and
\* EntryPoint(*vals) make of it
CellOf(r) == r.name \o "=" \o r.value

RecordOf(cell) == CHOOSE r \in EpRecords : CellOf(r) = cell

Cells == {CellOf(r) : r \in EpRecords}

\* json.dump(data, f): the text written, as the list of the pieces it is
\* written in
Dump(data) ==
    <<"{groups">> \o [k \in 1..Len(data.eps) |-> CellOf(data.eps[k])] \o <<"}">>

\* json.load(f) on a file holding content: the error raised, or the value.
\* "0xff" is a byte that is no UTF-8 text, "null" a JSON value that is no
\* object, <<"{", "}">> an object without 'groups'
Parse(content) ==
    IF \E k \in 1..Len(content) : content[k] = "0xff"
    THEN [err |-> "UnicodeDecodeError", shape |-> "None", eps |-> <<>>]
    ELSE IF content = <<"null">>
    THEN [err |-> "None", shape |-> "not_dict", eps |-> <<>>]
    ELSE IF content = <<"{", "}">>
    THEN [err |-> "None", shape |-> "no_groups", eps |-> <<>>]
    ELSE IF /\ Len(content) >= 2
            /\ content[1] = "{groups"
            /\ content[Len(content)] = "}"
            /\ \A k \in 2..(Len(content) - 1) : content[k] \in Cells
    THEN [err |-> "None", shape |-> "groups",
          eps |-> [k \in 1..(Len(content) - 2) |-> RecordOf(content[k + 1])]]
    ELSE [err |-> "JSONDecodeError", shape |-> "None", eps |-> <<>>]

\* get_group_all's data.get('groups', {}).get(group, []) and its loop
GroupAll(data, group) ==
    IF data.shape = "not_dict"
    THEN [raised |-> "AttributeError", value |-> <<>>]
    ELSE IF data.shape = "groups" /\ group = Namespace
    THEN [raised |-> "None", value |-> data.eps]
    ELSE [raised |-> "None", value |-> <<>>]

RECURSIVE FirstPerName(_, _)
\* get_group_named's loop: the first record of each name, in the order of the
\* names' first records
FirstPerName(eps, acc) ==
    IF eps = <<>> THEN acc
    ELSE FirstPerName(Tail(eps),
             IF \E k \in 1..Len(acc) : acc[k].name = Head(eps).name
             THEN acc ELSE Append(acc, Head(eps)))

\* get_group_named's dict, as the list of its items
get_group_named(eps) ==
    [k \in 1..Len(FirstPerName(eps, <<>>)) |->
        <<FirstPerName(eps, <<>>)[k].name, FirstPerName(eps, <<>>)[k]>>]

RECURSIVE SingleLoop(_, _)
\* get_single's loop `for name, ep in ...items(): if name == name: return ep`:
\* the loop variable takes the place of the argument, so the test compares
\* each key with itself
SingleLoop(items, name) ==
    IF items = <<>>
    THEN [raised |-> "ValueError", value |-> <<>>]
    ELSE IF Head(items)[1] = Head(items)[1]
         THEN [raised |-> "None", value |-> <<Head(items)[2]>>]
         ELSE SingleLoop(Tail(items), name)

\* get_single(group, name) on the records get_group_all returned
get_single(eps, name) == SingleLoop(get_group_named(eps), name)

-----------------------------------------------------------------------------
(* stevedore._cache: Cache._get_data_for_path and its callers, per process *)

\* the processes that share the cache directory
Procs == {1, 2, 3}

\* the cache calls followed in each process
MaxCalls == 2

\* the path arguments: None stands for sys.path
PathArgs == {<<"None">>, <<"/t">>}

\* no call has finished
NoCall == [op |-> "None"]

\* the locals of a process that is in no call and has made calls calls
NoFrame(calls) ==
    [calls |-> calls, op |-> "None", group |-> "None", name |-> "None",
     key |-> <<>>, filename |-> <<>>, fingerprint |-> <<>>, data |-> <<>>,
     pos |-> 0, scanned |-> FALSE, read_state |-> "None",
     wrote |-> FALSE]

\* sys.executable[0:4] == '/tmp'
RunsFromTmp(env) == SubSeq(env.executable, 1, 4) = "/tmp"

\* Cache.__init__'s test of the two signals
DisableCaching(env, marker) == marker \/ RunsFromTmp(env)

\* a read of the dict d that answers dflt for a missing key
Get(d, key, dflt) == IF key \in DOMAIN d THEN d[key] ELSE dflt

\* a store that forgets the keys held before
Put_alone(d, key, value) == [k \in {key} |-> value]

\* d[key] = value
Put(d, key, value) ==
    [k \in DOMAIN d \cup {key} |-> IF k = key THEN value ELSE d[k]]

\* the call of process p returns or raises: what the caller gets of data, by
\* the function called, after self._internal[internal_key] = data
Finish(p, f, data, how) ==
    /\ _internal' = [_internal EXCEPT ![p] = Put(@, f.key, data)]
    /\ \E r \in {GroupAll(data, f.group)} :
       \E out \in {IF f.op = "get_single" /\ r.raised = "None"
                   THEN get_single(r.value, f.name) ELSE r} :
           /\ ENTRY_POINT_CACHE' =
                  IF f.op = "list_entry_points" /\ out.raised = "None"
                  THEN [ENTRY_POINT_CACHE EXCEPT ![p] = Put(@, f.group, out.value)]
                  ELSE ENTRY_POINT_CACHE
           /\ last_call' = [proc |-> p, op |-> f.op, group |-> f.group,
                            name |-> f.name, key |-> f.key,
                            fingerprint |-> f.fingerprint, how |-> how,
                            value |-> out.value, raised |-> out.raised,
                            scanned |-> f.scanned,
                            read_state |-> f.read_state, wrote |-> f.wrote,
                            disabled |-> _disable_caching[p]]
    /\ cpc' = [cpc EXCEPT ![p] = "idle"]
    /\ frame' = [frame EXCEPT ![p] = NoFrame(f.calls + 1)]

\* an error leaves _get_data_for_path before data is memoized
Abort(p, f, err) ==
    /\ last_call' = [proc |-> p, op |-> f.op, group |-> f.group,
                     name |-> f.name, key |-> f.key,
                     fingerprint |-> f.fingerprint, how |-> "raised",
                     value |-> <<>>, raised |-> err,
                     scanned |-> f.scanned,
                     read_state |-> f.read_state, wrote |-> f.wrote,
                     disabled |-> _disable_caching[p]]
    /\ cpc' = [cpc EXCEPT ![p] = "idle"]
    /\ frame' = [frame EXCEPT ![p] = NoFrame(f.calls + 1)]
    /\ UNCHANGED <<_internal, ENTRY_POINT_CACHE>>

\* the frame of a call of op by process p
Called(p, op, group, name, patharg) ==
    [NoFrame(frame[p].calls) EXCEPT
        !.op = op, !.group = group, !.name = name,
        !.key = IF patharg = <<"None">> THEN SysPath(environ) ELSE patharg,
        !.fingerprint =
            _hash_settings_for_path(environ,
                IF patharg = <<"None">> THEN SysPath(environ) ELSE patharg).h]

\* process p calls get_group_all(group, path), get_single(group, name, path) or,
\* constructing a manager, list_entry_points(): up to the test of
\* self._internal, and to open(filename) when the key is not in it. Unless
\* overlap holds, no other process is in a call; max bounds the calls of p,
\* and groups and pathargs are the arguments it may pass.
Call(p, overlap, ops, groups, pathargs, max) ==
    /\ cpc[p] = "idle"
    /\ overlap \/ \A q \in Procs : cpc[q] = "idle"
    /\ frame[p].calls < max
    /\ \E op \in ops, group \in groups, name \in Names,
          patharg \in pathargs :
       \E f \in {Called(p, op, group, name, patharg)} :
           /\ op # "get_single" => name = "a"
           /\ op = "list_entry_points" => patharg = <<"None">>
           /\ op = "get_single" => group = Namespace
           /\ IF op = "list_entry_points" /\ group \in DOMAIN ENTRY_POINT_CACHE[p]
              THEN /\ last_call' =
                          [proc |-> p, op |-> op, group |-> group,
                           name |-> name, key |-> f.key,
                           fingerprint |-> f.fingerprint, how |-> "cached",
                           value |-> ENTRY_POINT_CACHE[p][group],
                           raised |-> "None", scanned |-> FALSE,
                           read_state |-> "None",
                           wrote |-> FALSE, disabled |-> _disable_caching[p]]
                   /\ frame' = [frame EXCEPT ![p] = NoFrame(f.calls + 1)]
                   /\ UNCHANGED <<cpc, _internal, ENTRY_POINT_CACHE>>
              ELSE IF f.key \in DOMAIN _internal[p]
              THEN Finish(p, f, _internal[p][f.key], "memo")
              ELSE /\ cpc' = [cpc EXCEPT ![p] = "open_read"]
                   /\ frame' = [frame EXCEPT ![p] =
                                    [f EXCEPT !.filename = f.fingerprint]]
                   /\ UNCHANGED <<last_call, _internal, ENTRY_POINT_CACHE>>
    /\ UNCHANGED <<manager_state, environ, entry_points, files, disable_marker,
                   _disable_caching, persisted, hashed>>

\* what open(filename) and json.load(f) make of the cache file
ReadState(fn) ==
    IF fn \notin DOMAIN files THEN "absent"
    ELSE IF ~files[fn].readable THEN "unreadable"
    ELSE IF Parse(files[fn].content).err # "None"
         THEN Parse(files[fn].content).err
         ELSE Parse(files[fn].content).shape

\* with open(filename) as f: data = json.load(f), and the except clause for
\* OSError and json.JSONDecodeError
ReadFile(p) ==
    /\ cpc[p] = "open_read"
    /\ \E st \in {ReadState(frame[p].filename)} :
       \E f \in {[frame[p] EXCEPT !.read_state = st]} :
           IF st \in {"absent", "unreadable", "JSONDecodeError"}
           THEN /\ cpc' = [cpc EXCEPT ![p] = "build"]
                /\ frame' = [frame EXCEPT ![p] = f]
                /\ UNCHANGED <<last_call, _internal, ENTRY_POINT_CACHE>>
           ELSE IF st = "UnicodeDecodeError"
           THEN Abort(p, f, st)
           ELSE Finish(p, f, [shape |-> st,
                              eps |-> Parse(files[f.filename].content).eps],
                       "store")
    /\ UNCHANGED <<manager_state, environ, entry_points, files, disable_marker,
                   _disable_caching, persisted, hashed>>

\* data = _build_cacheable_data(), and the test of self._disable_caching
Build(p) ==
    /\ cpc[p] = "build"
    /\ IF entry_points.fails
       THEN Abort(p, [frame[p] EXCEPT !.scanned = TRUE], "ScanError")
       ELSE \E f \in {[frame[p] EXCEPT
                          !.scanned = TRUE,
                          !.data = _build_cacheable_data(entry_points.eps)]} :
                IF _disable_caching[p]
                THEN Finish(p, f, f.data, "built")
                ELSE /\ cpc' = [cpc EXCEPT ![p] = "open_write"]
                     /\ frame' = [frame EXCEPT ![p] = f]
                     /\ UNCHANGED <<last_call, _internal, ENTRY_POINT_CACHE>>
    /\ UNCHANGED <<manager_state, environ, entry_points, files, disable_marker,
                   _disable_caching, persisted, hashed>>

\* os.makedirs(self._dir, exist_ok=True) and open(filename, 'w'), which empties
\* the file; either may raise OSError, which is passed over
OpenWrite(p) ==
    /\ cpc[p] = "open_write"
    /\ \/ /\ Finish(p, frame[p], frame[p].data, "built")
          /\ UNCHANGED files
       \/ /\ files' = Put(files, frame[p].filename,
                          [readable |-> Get(files, frame[p].filename,
                                            [readable |-> TRUE]).readable,
                           content |-> <<>>])
          /\ cpc' = [cpc EXCEPT ![p] = "write"]
          /\ frame' = [frame EXCEPT ![p] = [@ EXCEPT !.pos = 1, !.wrote = TRUE]]
          /\ UNCHANGED <<last_call, _internal, ENTRY_POINT_CACHE>>
    /\ UNCHANGED <<manager_state, environ, entry_points, disable_marker,
                   _disable_caching, persisted, hashed>>

\* the file's content after piece is written at position pos of it: a write
\* past the end leaves a hole of NUL bytes
WriteAt(content, pos, piece) ==
    [k \in 1..(IF pos > Len(content) THEN pos ELSE Len(content)) |->
        IF k = pos THEN piece
        ELSE IF k <= Len(content) THEN content[k] ELSE "NUL"]

\* json.dump(data, f) writes its next piece, and the file is closed after the
\* last one; a write may raise OSError, which is passed over
WriteCell(p) ==
    /\ cpc[p] = "write"
    /\ \/ /\ Finish(p, frame[p], frame[p].data, "built")
          /\ UNCHANGED <<files, persisted>>
       \/ \E f \in {frame[p]} :
          \E content \in {WriteAt(files[f.filename].content, f.pos,
                                  Dump(f.data)[f.pos])} :
              /\ files' = [files EXCEPT ![f.filename].content = content]
              /\ IF f.pos < Len(Dump(f.data))
                 THEN /\ frame' = [frame EXCEPT ![p] = [f EXCEPT !.pos = f.pos + 1]]
                      /\ UNCHANGED <<cpc, last_call, _internal,
                                     ENTRY_POINT_CACHE, persisted>>
                 ELSE /\ Finish(p, f, f.data, "built")
                      /\ persisted' =
                             IF content = Dump(f.data)
                             THEN Put(persisted, f.filename,
                                      [data |-> f.data, by |-> p,
                                       at |-> f.calls + 1])
                             ELSE persisted
    /\ UNCHANGED <<manager_state, environ, entry_points, disable_marker,
                   _disable_caching, hashed>>

-----------------------------------------------------------------------------
(* The environment of the cache, and the specifications of its calls *)

\* what a scan of the registry can find: up to MaxEps records of the
\* namespace, exact duplicates included, or an error raised by
\* importlib.metadata
Registries ==
    {[fails |-> FALSE, eps |-> eps] : eps \in SeqsUpTo(EpRecords, MaxEps)}
        \cup {[fails |-> TRUE, eps |-> <<>>]}

\* the scans followed through several calls: no record, one found twice, two,
\* or an error
ScanResults ==
    {[fails |-> FALSE, eps |-> eps] :
        eps \in {<<>>,
                 <<[name |-> "a", value |-> "m:x"],
                   [name |-> "a", value |-> "m:x"]>>,
                 <<[name |-> "b", value |-> "m:x"],
                   [name |-> "a", value |-> "m:y"]>>}}
        \cup {[fails |-> TRUE, eps |-> <<>>]}

\* the environments of the cache's processes: one search path, and an
\* interpreter inside or outside /tmp
CacheEnvironments ==
    {env \in Environments :
        /\ env.prefix = "/a"
        /\ env.path = <<"/s">>
        /\ env.mtime["/s"] = 1700000000
        /\ env.ep_files["/s"] = <<>>}

\* what the cache file can hold before the first call: nothing, a piece of a
\* write, bytes that are no text, JSON that is no dataset, or a dataset
StoredContents ==
    {<<>>, <<"{groups">>, <<"0xff">>, <<"null">>, <<"{", "}">>,
     <<"{groups", "}">>, <<"{groups", "b=m:x", "}">>}

\* the file of fingerprint fp holding content
Stored(fp, readable, content) ==
    Put(<<>>, fp, [readable |-> readable, content |-> content])

\* the cache directory before the first call: empty, or holding the file of
\* the fingerprint of sys.path, readable or not
StoredFiles(env) ==
    {<<>>}
      \cup {Stored(_hash_settings_for_path(env, SysPath(env)).h, TRUE, c) :
                c \in StoredContents}
      \cup {Stored(_hash_settings_for_path(env, SysPath(env)).h, FALSE,
                   <<"{groups", "}">>)}

\* the cache directory left by earlier runs that went well: empty, or
\* holding a dataset
UsedFiles(env) ==
    {<<>>, Stored(_hash_settings_for_path(env, SysPath(env)).h, TRUE,
                  <<"{groups", "b=m:x", "}">>)}

\* a distribution is installed, changed or removed, or the scan breaks
Reinstall ==
    /\ entry_points' \in ScanResults \ {entry_points}
    /\ UNCHANGED <<manager_state, environ, files, disable_marker,
                   _disable_caching, _internal, ENTRY_POINT_CACHE, cpc, frame,
                   last_call, persisted, hashed>>

\* process p ends and a fresh one takes its place: the module is imported
\* again (_c = Cache(), ENTRY_POINT_CACHE = {})
Restart(p) ==
    /\ cpc[p] = "idle"
    /\ frame[p].calls > 0
    /\ _internal[p] # <<>>
    /\ _internal' = [_internal EXCEPT ![p] = <<>>]
    /\ ENTRY_POINT_CACHE' = [ENTRY_POINT_CACHE EXCEPT ![p] = <<>>]
    /\ _disable_caching' =
           [_disable_caching EXCEPT ![p] = DisableCaching(environ, disable_marker)]
    /\ UNCHANGED <<manager_state, environ, entry_points, files, disable_marker,
                   cpc, frame, last_call, persisted, hashed>>

\* the processes have imported stevedore._cache (_c = Cache()), and none has
\* called it
InitCacheOf(regs, stored_in_env) ==
    /\ ManagerUnused
    /\ environ \in CacheEnvironments
    /\ entry_points \in regs
    /\ files \in stored_in_env[environ]
    /\ disable_marker \in BOOLEAN
    /\ _disable_caching =
           [p \in Procs |-> DisableCaching(environ, disable_marker)]
    /\ _internal = [p \in Procs |-> <<>>]
    /\ ENTRY_POINT_CACHE = [p \in Procs |-> <<>>]
    /\ cpc = [p \in Procs |-> "idle"]
    /\ frame = [p \in Procs |-> NoFrame(0)]
    /\ last_call = NoCall
    /\ persisted = <<>>
    /\ hashed = <<>>

\* one call of the cache, whatever the cache directory holds
InitCall ==
    InitCacheOf(Registries, [env \in CacheEnvironments |-> StoredFiles(env)])

CallOnce ==
    Call(1, FALSE, {"get_group_all", "get_single", "list_entry_points"},
         QueryGroups, PathArgs, 1)

NextCall ==
    \/ CallOnce
    \/ ReadFile(1)
    \/ Build(1)
    \/ OpenWrite(1)
    \/ WriteCell(1)

SpecCall == InitCall /\ [][NextCall]_vars

\* the calls of a process and of the fresh ones that follow it, and the changes
\* of what is installed between the calls
InitCache ==
    InitCacheOf(ScanResults, [env \in CacheEnvironments |-> UsedFiles(env)])

CallNext ==
    Call(1, FALSE, {"get_group_all", "list_entry_points"}, QueryGroups,
         PathArgs, MaxCalls)

NextCache ==
    \/ CallNext
    \/ ReadFile(1)
    \/ Build(1)
    \/ OpenWrite(1)
    \/ WriteCell(1)
    \/ Restart(1)
    \/ cpc[1] = "idle" /\ Reinstall

SpecCache == InitCache /\ [][NextCache]_vars

-----------------------------------------------------------------------------
(* Claims about single calls of the cache *)

\* the dataset the last call worked on, once memoized
LastData == _internal[last_call.proc][last_call.key]

\* the position of the first record of eps named name, or 0
FirstNamed(eps, name) ==
    IF \E k \in 1..Len(eps) : eps[k].name = name
    THEN CHOOSE k \in 1..Len(eps) :
             /\ eps[k].name = name
             /\ \A j \in 1..(k - 1) : eps[j].name # name
    ELSE 0

\* C30: get_single(group, name) on a dataset returns the first record of the
\* group that is named name, and raises ValueError when the group holds no
\* record of that name.
C30_GetSingleFindsTheNamedRecord ==
    (/\ last_call.op = "get_single"
     /\ last_call.how \in {"built", "store"}
     /\ LastData.shape = "groups")
        => \E k \in {FirstNamed(LastData.eps, last_call.name)} :
               IF k = 0
               THEN last_call.raised = "ValueError"
               ELSE /\ last_call.raised = "None"
                    /\ last_call.value = <<LastData.eps[k]>>

\* the file the last call opened held no dataset: it was absent, unreadable,
\* empty or cut short, no text, or JSON without the groups
NoDatasetRead == last_call.read_state \notin {"None", "groups"}

\* C23: when the file named by the fingerprint holds no dataset, or the cache
\* directory or the file cannot be written, get_group_all raises nothing and
\* returns the records a scan of the registry finds for the group.
C23_StoreFailuresAreNeverFatal ==
    (/\ last_call.op = "get_group_all"
     /\ NoDatasetRead
     /\ ~entry_points.fails)
        => /\ last_call.raised = "None"
           /\ last_call.scanned
           /\ last_call.value =
                  GroupAll(_build_cacheable_data(entry_points.eps),
                           last_call.group).value

-----------------------------------------------------------------------------
(* Claims about the calls of a process and of the fresh ones after it *)

\* the last call went into Cache._get_data_for_path
CacheCalled == last_call.op # "None" /\ last_call.how # "cached"

\* C24: while the .disable marker is present or the interpreter runs from /tmp,
\* a call of the cache writes no file and scans the registry: it returns no
\* stored and no memoized dataset.
C24_DisabledCachingAlwaysRebuilds ==
    (/\ CacheCalled
     /\ DisableCaching(environ, disable_marker))
        => /\ ~last_call.wrote
           /\ last_call.scanned
           /\ last_call.how \in {"built", "raised"}

\* the last call came after the call that wrote the file fp whole
AfterPersisted(fp) ==
    /\ CacheCalled
    /\ fp \in DOMAIN persisted
    /\ last_call.fingerprint = fp
    /\ frame[last_call.proc].calls > persisted[fp].at

\* C22: after a call has built the dataset and written it whole under a
\* fingerprint, every later call of the cache with that fingerprint, by the
\* same process or by a fresh one, raises nothing, scans no registry and
\* returns the records of that dataset for its group, whatever a scan would
\* find now.
C22_StoredDatasetIsReturnedWithoutAScan ==
    \A fp \in DOMAIN persisted :
        AfterPersisted(fp)
            => /\ last_call.raised = "None"
               /\ ~last_call.scanned
               /\ last_call.value =
                      GroupAll(persisted[fp].data, last_call.group).value

\* C22: a fresh process read the file an earlier call had written and returned
\* its two records though the scan fails by now
C22_Witness ==
    /\ last_call.op = "get_group_all"
    /\ AfterPersisted(last_call.fingerprint)
    /\ last_call.how = "store"
    /\ entry_points.fails
    /\ Len(last_call.value) = 2

\* dict d keeps every key it holds, with its value
Kept(d, e) == \A k \in DOMAIN d : k \in DOMAIN e /\ e[k] = d[k]

\* a call of process p returns or raises in this step
CallReturned(p) == frame'[p].calls = frame[p].calls + 1

\* a manager of process p is constructed for a namespace ENTRY_POINT_CACHE
\* holds: the records come from there, and neither the cache file nor the
\* registry is touched
CachedNamespaceSkipsTheCache(p) ==
    (/\ CallReturned(p)
     /\ last_call'.op = "list_entry_points"
     /\ last_call'.group \in DOMAIN ENTRY_POINT_CACHE[p])
        => /\ last_call'.how = "cached"
           /\ last_call'.value = ENTRY_POINT_CACHE[p][last_call'.group]
           /\ ~last_call'.scanned
           /\ last_call'.read_state = "None"
           /\ UNCHANGED <<_internal, files, cpc>>

\* C25: while a process lives, no call removes a key of ENTRY_POINT_CACHE or of
\* Cache._internal or changes its value, and list_entry_points for a namespace
\* ENTRY_POINT_CACHE holds returns the held records without calling the cache
\* or scanning the registry.
C25_MemoCachesAreAppendOnly ==
    [][\A p \in Procs :
           \/ Restart(p)
           \/ /\ Kept(_internal[p], _internal'[p])
              /\ Kept(ENTRY_POINT_CACHE[p], ENTRY_POINT_CACHE'[p])
              /\ CachedNamespaceSkipsTheCache(p)]_vars

\* C25: a second manager of the namespace got the two records the first had
\* cached, though the scan fails by now; the process holds the dataset of its
\* search path
C25_Witness ==
    /\ last_call.op = "list_entry_points"
    /\ last_call.how = "cached"
    /\ Len(last_call.value) = 2
    /\ entry_points.fails
    /\ Namespace \in DOMAIN ENTRY_POINT_CACHE[1]
    /\ DOMAIN _internal[1] = {<<"/s">>}

-----------------------------------------------------------------------------
(* Processes that call the cache at the same time *)

\* the cache directory is empty, and the processes call get_group_all once
\* each, in any interleaving of their steps, while distributions are installed
InitRace ==
    InitCacheOf(ScanResults, [env \in CacheEnvironments |-> {<<>>}])

CallRacing(p) ==
    Call(p, TRUE, {"get_group_all"}, {Namespace}, {<<"None">>}, 1)

NextRace ==
    \/ \E p \in Procs : CallRacing(p)
    \/ \E p \in Procs : ReadFile(p)
    \/ \E p \in Procs : Build(p)
    \/ \E p \in Procs : OpenWrite(p)
    \/ \E p \in Procs : WriteCell(p)
    \/ Reinstall

SpecRace == InitRace /\ [][NextRace]_vars

\* process q has built dataset d, or has returned it
HasDataset(q, d) ==
    \/ cpc[q] \in {"open_write", "write"} /\ frame[q].data = d
    \/ \E k \in DOMAIN _internal[q] : _internal[q][k] = d

\* C26: whatever the interleaving of the processes' reads, truncations and
\* writes of the fingerprint's file, no call raises because of the file, and a
\* call that takes its dataset from the file returns a dataset another process
\* built whole, never a part or a mixture.
C26_RacingReadersSeeWholeDatasetsOnly ==
    last_call.op # "None"
        => /\ last_call.raised \in {"None", "ScanError"}
           /\ last_call.how = "store"
                  => \E q \in Procs \ {last_call.proc} : HasDataset(q, LastData)

=============================================================================
